---- MODULE Spec2Model ----
(***************************************************************************)
(* Model of the pension simulator (simulador-rprv): the actuarial engine   *)
(* of the calculator library and the POST handler of the calculation       *)
(* route that dispatches a request to it.                                  *)
(*                                                                         *)
(* The source computes with IEEE doubles.  The model computes with         *)
(* fixed-point integers, every operation rounding to the nearest unit of   *)
(* its scale:                                                              *)
(*   probabilities, discount factors, rates, CNU : millionths  (P6)        *)
(*   survivor counts lx                          : 1/10000     (lx * 10^4) *)
(*   unrounded money                             : tenths of a peso        *)
(*   shares (porcentaje)                         : millionths              *)
(* Infinity, -Infinity and NaN of the doubles are the three sentinels      *)
(* PosInf, NegInf and NaN.                                                 *)
(***************************************************************************)
EXTENDS Integers, Sequences, FiniteSets, TLC

\* ------------------------------------------------------------------------
\* Fixed-point arithmetic standing for the double arithmetic of the source
\* ------------------------------------------------------------------------

P6 == 1000000

Max(a, b) == IF a >= b THEN a ELSE b

Min(a, b) == IF a <= b THEN a ELSE b

\* one binary step of a * m / b: from <<q, r>> with a * k = q * b + r to the
\* pair for a * (2 * k + 1) when impar and for a * (2 * k) otherwise
Doblar[h \in Nat \X Nat, a \in Nat, impar \in BOOLEAN, b \in Nat] ==
  LET r3 == ((2 * h[2]) % b) + (IF impar THEN a % b ELSE 0)
      q3 == 2 * h[1] + ((2 * h[2]) \div b) + (IF impar THEN a \div b ELSE 0)
  IN  IF r3 >= b THEN <<q3 + 1, r3 - b>> ELSE <<q3, r3>>

\* <<q, r>> with a * m = q * b + r and 0 <= r < b, for a >= 0, m >= 0, b > 0,
\* by binary double-and-add so that no intermediate exceeds 2 * b.
MulDivQR[a \in Nat, m \in Nat, b \in Nat] ==
  IF m = 0 THEN <<0, 0>>
  ELSE Doblar[MulDivQR[a, m \div 2, b], a, m % 2 = 1, b]

\* a * m / b rounded to the nearest integer (a, m >= 0, b > 0)
MulDiv(a, m, b) ==
  LET h == MulDivQR[a, m, b]
  IN  h[1] + (IF 2 * h[2] >= b THEN 1 ELSE 0)

\* a * b / 10^6 rounded to the nearest integer, for 0 <= a <= 2*10^9 and
\* 0 <= b < 2*10^6, by splitting both factors at 10^3.
FMul(a, b) ==
  LET ah == a \div 1000
      al == a % 1000
      bh == b \div 1000
      bl == b % 1000
      M  == ah * bl + al * bh
      r  == al * bl
  IN  ah * bh + ((M + ((r + 500000) \div 1000)) \div 1000)

TABLA_CB_H_2020 ==
  <<6154, 331, 200, 163, 139, 127, 118, 114, 112, 111,
    116, 130, 155, 195, 255, 344, 457, 581, 692, 771,
    822, 855, 882, 906, 923, 946, 977, 1019, 1054, 1078,
    1100, 1134, 1181, 1227, 1261, 1287, 1312, 1350, 1400, 1463,
    1528, 1599, 1671, 1750, 1817, 1887, 1961, 2069, 2200, 2361,
    2532, 2700, 2849, 2986, 3412, 3834, 4264, 4709, 5168, 5635,
    6097, 6550, 7003, 7490, 8083, 8874, 9942, 11303, 12916, 14716,
    16636, 18630, 20684, 22820, 25095, 27591, 30421, 33701, 37531, 41974,
    47053, 52766, 59097, 66038, 73594, 81792, 90667, 100267, 110644, 121853,
    133946, 146940, 160891, 175894, 192038, 209426, 227967, 247762, 268848, 291255,
    315002, 340099, 366537, 394293, 423326, 453570, 483734, 514750, 546470, 578719,
    1000000>>

TABLA_B_M_2020 ==
  <<5207, 268, 183, 144, 123, 111, 102, 96, 92, 90,
    93, 104, 120, 146, 184, 223, 251, 268, 283, 291,
    300, 306, 316, 323, 325, 319, 319, 329, 350, 371,
    392, 413, 444, 478, 511, 547, 591, 647, 701, 752,
    805, 868, 940, 1018, 1107, 1206, 1315, 1420, 1528, 1649,
    1789, 1927, 2140, 2299, 2458, 2644, 2859, 3090, 3327, 3581,
    3883, 4262, 4733, 5295, 5939, 6647, 7397, 8187, 9031, 9941,
    10928, 12009, 13221, 14602, 16187, 18012, 20121, 22564, 25386, 28615,
    32266, 36339, 40838, 45792, 51262, 57336, 64119, 71721, 80243, 89768,
    100358, 112188, 125167, 139302, 154590, 171021, 188599, 207367, 227259, 248101,
    269652, 291802, 314360, 337119, 359868, 382398, 403098, 423059, 442133, 460204,
    1000000>>

TABLA_I_H_2020 ==
  <<12500, 13200, 14000, 14800, 15700, 16600, 17600, 18700, 19900, 21200,
    22600, 24100, 25700, 27400, 29300, 31300, 33500, 35900, 38500, 41300,
    44300, 47500, 51000, 54800, 58900, 63300, 68100, 73300, 78900, 85000,
    91500, 98600, 106300, 114600, 123600, 133300, 143800, 155100, 167300, 180500,
    194700, 210000, 226400, 244100, 263100, 283500, 305400, 328900, 354000, 381000,
    409800, 440700, 473700, 509000, 546700, 586800, 629600, 675100, 723400, 774700,
    829000, 886500, 947200, 1000000>>

TABLA_I_M_2020 ==
  <<9500, 10100, 10800, 11500, 12300, 13100, 14000, 14900, 15900, 17000,
    18200, 19500, 20900, 22400, 24000, 25700, 27600, 29600, 31800, 34200,
    36800, 39600, 42600, 45900, 49400, 53300, 57400, 61900, 66800, 72000,
    77700, 83800, 90400, 97500, 105200, 113500, 122400, 132000, 142400, 153600,
    165600, 178600, 192500, 207500, 223600, 240900, 259500, 279400, 300800, 323700,
    348300, 374600, 402800, 432900, 465100, 499400, 536000, 575000, 616400, 660400,
    707100, 756600, 809000, 1000000>>

\* ------------------------------------------------------------------------
\* Mortality model
\* ------------------------------------------------------------------------

\* the death probability of the general table of the sex, whatever the cohort
getQx_tablaGeneral(edad, sexo, esInvalido) ==
  LET edadValida == Max(0, Min(edad, 110))
  IN  IF sexo = "M" THEN TABLA_CB_H_2020[edadValida + 1]
                    ELSE TABLA_B_M_2020[edadValida + 1]

\* getQx: annual death probability in millionths, ages clamped to the table
getQx(edad, sexo, esInvalido) ==
  LET edadValida == Max(0, Min(edad, 110))
  IN  IF esInvalido
      THEN LET edadMin == 18
               edadInv == Max(edadMin, Min(edadValida, 81))
           IN  IF sexo = "M" THEN TABLA_I_H_2020[edadInv - 17]
                             ELSE TABLA_I_M_2020[edadInv - 17]
      ELSE IF sexo = "M" THEN TABLA_CB_H_2020[edadValida + 1]
                         ELSE TABLA_B_M_2020[edadValida + 1]

\* A survivor count lx is held as a decimal floating-point pair <<m, k>>
\* standing for m * 10^(-k) / 10000, with 10^8 <= m <= 10^9 unless m = 0,
\* so that the counts of the oldest ages keep their relative precision as
\* the doubles of the source do.  LxRadix is lx = 100000 (k = 0).
LxRadix == 1000000000

RECURSIVE LxNorm(_, _)
LxNorm(m, k) ==
  IF m = 0 THEN <<0, 0>>
  ELSE IF m < 100000000 THEN LxNorm(m * 10, k + 1)
  ELSE <<m, k>>

RECURSIVE Pow10(_)
Pow10(n) == IF n <= 0 THEN 1 ELSE 10 * Pow10(n - 1)

\* lx * (1 - qx), the body of the loop of calcularLx
LxPaso(lx, qx) == LxNorm(FMul(lx[1], P6 - qx), lx[2])

\* a / b for two survivor counts with a <= b and b > 0, in millionths
LxRatio(a, b) ==
  LET d == a[2] - b[2]
      q == MulDiv(a[1], P6, b[1])
  IN  IF a[1] = 0 \/ d > 8 THEN 0
      ELSE IF d >= 0 THEN (q + (Pow10(d) \div 2)) \div Pow10(d)
      ELSE q * Pow10(-d)

\* a <= b for two survivor counts
LxLeq(a, b) ==
  \/ a[1] = 0
  \/ /\ b[1] # 0
     /\ \/ a[2] > b[2]
        \/ a[2] = b[2] /\ a[1] <= b[1]

\* largest age for which survivor counts are tabulated: qx = 1 at the last
\* age of every table, so lx is 0 from age 111 on and stays 0
MaxEdadLx == 112

\* calcularLx for the ages 0..hasta of one cohort: entry e + 1 is the value
\* of lx after the loop has run for edad = edadMinima .. e - 1.  The table
\* is extended in halves to keep the evaluation stack shallow.
RECURSIVE LxTablaDe(_, _, _, _)
LxTablaDe(tabla, hasta, sexo, esInvalido) ==
  IF Len(tabla) > hasta THEN tabla
  ELSE IF hasta - Len(tabla) >= 8
       THEN LxTablaDe(
              LxTablaDe(tabla, Len(tabla) + ((hasta - Len(tabla)) \div 2), sexo, esInvalido),
              hasta, sexo, esInvalido)
  ELSE IF Len(tabla) = 0
       THEN LxTablaDe(<<LxNorm(LxRadix, 0)>>, hasta, sexo, esInvalido)
  ELSE IF Len(tabla) - 1 < (IF esInvalido THEN 18 ELSE 0)
       THEN LxTablaDe(Append(tabla, tabla[Len(tabla)]), hasta, sexo, esInvalido)
       ELSE LxTablaDe(
              Append(tabla, LxPaso(tabla[Len(tabla)],
                                   getQx(Len(tabla) - 1, sexo, esInvalido))),
              hasta, sexo, esInvalido)

\* the four cohorts: 1 = men, 2 = women, 3 = disabled men, 4 = disabled women
Cohorte(sexo, esInvalido) ==
  (IF sexo = "M" THEN 1 ELSE 2) + (IF esInvalido THEN 2 ELSE 0)

SexoDe(cohorte) == IF cohorte % 2 = 1 THEN "M" ELSE "F"

LxTablas ==
  [cohorte \in 1..4 |-> LxTablaDe(<<>>, MaxEdadLx, SexoDe(cohorte), cohorte > 2)]

\* the survivor count of the general table of the sex, whatever the cohort
calcularLx_tablaGeneral(edadObjetivo, sexo, esInvalido) ==
  LxTablas[Cohorte(sexo, FALSE)][Min(Max(edadObjetivo, 0), MaxEdadLx) + 1]

\* calcularLx(edadObjetivo, sexo, esInvalido), read from the table
calcularLx(edadObjetivo, sexo, esInvalido) ==
  LxTablas[Cohorte(sexo, esInvalido)][Min(Max(edadObjetivo, 0), MaxEdadLx) + 1]

\* ------------------------------------------------------------------------
\* Interest rates and discount factors
\* ------------------------------------------------------------------------

\* TASAS_INTERES, in millionths
RETIRO_PROGRAMADO == 34100

RENTA_VITALICIA_VEJEZ == 27900

RENTA_VITALICIA_INVALIDEZ == 29600

SOBREVIVENCIA == 27900

\* the interest rates a request can carry
Tasas == {RETIRO_PROGRAMADO, RENTA_VITALICIA_VEJEZ, RENTA_VITALICIA_INVALIDEZ}

TasaIdx(tasa) ==
  IF tasa = RETIRO_PROGRAMADO THEN 1
  ELSE IF tasa = RENTA_VITALICIA_VEJEZ THEN 2 ELSE 3

TasaDe(idx) ==
  IF idx = 1 THEN RETIRO_PROGRAMADO
  ELSE IF idx = 2 THEN RENTA_VITALICIA_VEJEZ ELSE RENTA_VITALICIA_INVALIDEZ

\* Math.sqrt in millionths, by Newton's iteration from s
RECURSIVE Raiz(_, _, _)
Raiz(x, s, n) ==
  IF n = 0 \/ (s + MulDiv(x, P6, s)) \div 2 = s THEN s
  ELSE Raiz(x, (s + MulDiv(x, P6, s)) \div 2, n - 1)

\* largest t of the sums over the years of a life
MaxT == 112

\* factorDescuento = 1 / Math.pow(1 + tasaInteres, t + 0.5) for t = 0..hasta,
\* as pairs <<Math.pow(1 + tasaInteres, t + 0.5), factorDescuento>>, entry t + 1
RECURSIVE DescuentoTablaDe(_, _, _)
DescuentoTablaDe(tabla, hasta, tasa) ==
  IF Len(tabla) > hasta THEN tabla
  ELSE IF hasta - Len(tabla) >= 8
       THEN DescuentoTablaDe(
              DescuentoTablaDe(tabla, Len(tabla) + ((hasta - Len(tabla)) \div 2), tasa),
              hasta, tasa)
  ELSE IF Len(tabla) = 0
       THEN DescuentoTablaDe(
              << <<Raiz(P6 + tasa, P6, 6), MulDiv(P6, P6, Raiz(P6 + tasa, P6, 6))>> >>,
              hasta, tasa)
       ELSE DescuentoTablaDe(
              Append(tabla, << FMul(tabla[Len(tabla)][1], P6 + tasa),
                               MulDiv(P6, P6, FMul(tabla[Len(tabla)][1], P6 + tasa)) >>),
              hasta, tasa)

DescuentoTablas == [idx \in 1..3 |-> DescuentoTablaDe(<<>>, MaxT, TasaDe(idx))]

\* factorDescuento = 1 / Math.pow(1 + tasaInteres, t + 0.5), in millionths
factorDescuento(tasa, t) == DescuentoTablas[TasaIdx(tasa)][t + 1][2]

\* ------------------------------------------------------------------------
\* Present-value engine (CNU)
\* ------------------------------------------------------------------------

\* one term of the loop "CNU del titular" of calcularCNU (and of the loop
\* of calcularCNUIndividual)
TerminoTitular(t, edad, sexo, tasa, esInvalido) ==
  LET lxInicial == calcularLx(edad, sexo, esInvalido)
      lxFutura == calcularLx(edad + t, sexo, esInvalido)
      factorSupervivencia == LxRatio(lxFutura, lxInicial)
  IN  FMul(factorSupervivencia, factorDescuento(tasa, t))

\* the loop itself, for t = desde..hasta (summed in halves to keep the
\* evaluation stack shallow)
RECURSIVE SumaTitular(_, _, _, _, _, _)
SumaTitular(desde, hasta, edad, sexo, tasa, esInvalido) ==
  IF desde > hasta THEN 0
  ELSE IF desde = hasta THEN TerminoTitular(desde, edad, sexo, tasa, esInvalido)
  ELSE SumaTitular(desde, (desde + hasta) \div 2, edad, sexo, tasa, esInvalido)
       + SumaTitular(((desde + hasta) \div 2) + 1, hasta, edad, sexo, tasa, esInvalido)

\* calcularExpectativaVida: the loop state <<probSupervivencia, expectativa>>
\* after the iterations t = desde..hasta (run in halves)
ExpectativaLoop(estado0, desde0, hasta0, edad, sexo, esInvalido) ==
  LET Paso[estado \in Nat \X Nat, desde \in Int, hasta \in Int] ==
        IF desde > hasta THEN estado
        ELSE IF desde = hasta
             THEN << FMul(estado[1], P6 - getQx(edad + desde - 1, sexo, esInvalido)),
                     estado[2] + FMul(estado[1], P6 - getQx(edad + desde - 1, sexo, esInvalido)) >>
        ELSE Paso[Paso[estado, desde, (desde + hasta) \div 2],
                  ((desde + hasta) \div 2) + 1, hasta]
  IN  Paso[estado0, desde0, hasta0]

\* Math.round(expectativa * 10) / 10 of calcularExpectativaVida for the ages
\* 0..hasta of one cohort, in tenths of a year (built in halves)
RECURSIVE ExpectativaTablaDe(_, _, _, _)
ExpectativaTablaDe(tabla, hasta, sexo, esInvalido) ==
  IF Len(tabla) > hasta THEN tabla
  ELSE IF hasta - Len(tabla) >= 8
       THEN ExpectativaTablaDe(
              ExpectativaTablaDe(tabla, Len(tabla) + ((hasta - Len(tabla)) \div 2),
                                 sexo, esInvalido),
              hasta, sexo, esInvalido)
  ELSE ExpectativaTablaDe(
         Append(tabla,
           (ExpectativaLoop(<<P6, 0>>, 1, (IF esInvalido THEN 81 ELSE 110) - Len(tabla),
                            Len(tabla), sexo, esInvalido)[2] + 50000) \div 100000),
         hasta, sexo, esInvalido)

ExpectativaTablas ==
  [cohorte \in 1..4 |-> ExpectativaTablaDe(<<>>, MaxEdadLx, SexoDe(cohorte), cohorte > 2)]

\* the expectancy rounded to the year, in tenths of a year
calcularExpectativaVida_enAnios(edad, sexo, esInvalido) ==
  10 * ((ExpectativaTablas[Cohorte(sexo, esInvalido)][Min(Max(edad, 0), MaxEdadLx) + 1] + 5)
        \div 10)

\* calcularExpectativaVida, in tenths of a year: read from the table for the
\* ages 0..MaxEdadLx, 0 beyond them, and summed for the ages below 0
calcularExpectativaVida(edad, sexo, esInvalido) ==
  IF edad < 0
  THEN (ExpectativaLoop(<<P6, 0>>, 1, (IF esInvalido THEN 81 ELSE 110) - edad,
                        edad, sexo, esInvalido)[2] + 50000) \div 100000
  ELSE ExpectativaTablas[Cohorte(sexo, esInvalido)][Min(edad, MaxEdadLx) + 1]

\* ------------------------------------------------------------------------
\* Doubles that are not finite, and money
\* ------------------------------------------------------------------------

\* Infinity, -Infinity and NaN, the results of dividing by a CNU of 0
PosInf == 2000000001

NegInf == -2000000001

NaN == -2000000002

EsFinito(v) == v # PosInf /\ v # NegInf /\ v # NaN

Signo(v) == IF v > 0 THEN 1 ELSE IF v < 0 THEN -1 ELSE 0

Abs(v) == IF v < 0 THEN 0 - v ELSE v

\* n / d for doubles n and d held at the same scale, in millionths (or for
\* money n and a factor d in millionths, in money); IEEE rules at 0 and
\* Infinity (the zeros of the program are +0)
Dividir(n, d) ==
  IF n = NaN \/ d = NaN THEN NaN
  ELSE IF ~EsFinito(n) THEN (IF ~EsFinito(d) THEN NaN
                             ELSE IF Signo(n) * Signo(d) < 0 THEN NegInf ELSE PosInf)
  ELSE IF ~EsFinito(d) THEN 0
  ELSE IF d = 0 THEN (IF n > 0 THEN PosInf ELSE IF n < 0 THEN NegInf ELSE NaN)
  ELSE Signo(n) * Signo(d) * MulDiv(Abs(n), P6, Abs(d))

\* v * k for an integer k > 0
Por(v, k) == IF EsFinito(v) THEN v * k ELSE v

\* v * f for a double v and a factor f in millionths
Escalar(v, f) ==
  IF v = NaN \/ f = NaN THEN NaN
  ELSE IF ~EsFinito(v) \/ ~EsFinito(f)
       THEN (IF v = 0 \/ f = 0 THEN NaN
             ELSE IF Signo(v) * Signo(f) < 0 THEN NegInf ELSE PosInf)
  ELSE Signo(v) * Signo(f) * FMul(Abs(v), Abs(f))

\* a + b
Sumar(a, b) ==
  IF a = NaN \/ b = NaN THEN NaN
  ELSE IF ~EsFinito(a) THEN (IF ~EsFinito(b) /\ a # b THEN NaN ELSE a)
  ELSE IF ~EsFinito(b) THEN b
  ELSE a + b

\* a - b
Restar(a, b) ==
  Sumar(a, IF b = PosInf THEN NegInf ELSE IF b = NegInf THEN PosInf
           ELSE IF b = NaN THEN NaN ELSE 0 - b)

\* Math.max(a, b) and Math.min(a, b)
MathMax(a, b) == IF a = NaN \/ b = NaN THEN NaN ELSE IF a >= b THEN a ELSE b

MathMin(a, b) == IF a = NaN \/ b = NaN THEN NaN ELSE IF a <= b THEN a ELSE b

\* a <= b, a < b and a > b on doubles (false when either is NaN)
Menor(a, b) == a # NaN /\ b # NaN /\ a < b

MenorIgual(a, b) == a # NaN /\ b # NaN /\ a <= b

\* Math.round of money in tenths of a peso, in pesos
Redondear(v) == IF EsFinito(v) THEN (v + 5) \div 10 ELSE v

\* pesos to tenths of a peso
Pesos(v) == Por(v, 10)

UF_ACTUAL == 38500

\* v / UF_ACTUAL for money v in tenths of a peso, in millionths of a UF
EnUF(v) ==
  IF ~EsFinito(v) THEN v
  ELSE IF v >= 0 THEN MulDiv(v, 100000, UF_ACTUAL)
  ELSE 0 - MulDiv(0 - v, 100000, UF_ACTUAL)

\* ------------------------------------------------------------------------
\* Present-value engine, continued
\* ------------------------------------------------------------------------

\* one term of the loop of calcularCNUSobrevivenciaBeneficiario
TerminoBeneficiario(t, edadTitular, sexoTitular, tasaInteres, edadBeneficiario, sexoBeneficiario, porcentaje, esInvalidoTitular) ==
  LET lxTitular == calcularLx(edadTitular, sexoTitular, esInvalidoTitular)
      lxBeneficiario == calcularLx(edadBeneficiario, sexoBeneficiario, FALSE)
      lxTitularFutura == calcularLx(edadTitular + t, sexoTitular, esInvalidoTitular)
      probTitularFallecido == P6 - LxRatio(lxTitularFutura, lxTitular)
      lxBeneficiarioFutura == calcularLx(edadBeneficiario + t, sexoBeneficiario, FALSE)
      probBeneficiarioVivo == LxRatio(lxBeneficiarioFutura, lxBeneficiario)
      probConjunta == FMul(probTitularFallecido, probBeneficiarioVivo)
  IN  FMul(FMul(probConjunta, factorDescuento(tasaInteres, t)), porcentaje)

RECURSIVE SumaBeneficiario(_, _, _, _, _, _, _, _, _)
SumaBeneficiario(desde, hasta, edadTitular, sexoTitular, tasaInteres, edadBeneficiario, sexoBeneficiario, porcentaje, esInvalidoTitular) ==
  IF desde > hasta THEN 0
  ELSE IF desde = hasta
       THEN TerminoBeneficiario(desde, edadTitular, sexoTitular, tasaInteres,
              edadBeneficiario, sexoBeneficiario, porcentaje, esInvalidoTitular)
  ELSE SumaBeneficiario(desde, (desde + hasta) \div 2, edadTitular, sexoTitular,
         tasaInteres, edadBeneficiario, sexoBeneficiario, porcentaje, esInvalidoTitular)
       + SumaBeneficiario(((desde + hasta) \div 2) + 1, hasta, edadTitular, sexoTitular,
         tasaInteres, edadBeneficiario, sexoBeneficiario, porcentaje, esInvalidoTitular)

\* calcularCNUSobrevivenciaBeneficiario: NaN when a division lx / 0 occurs
\* in the loop (0 / 0 for a person older than the table)
calcularCNUSobrevivenciaBeneficiario(edadTitular, sexoTitular, tasaInteres, edadBeneficiario, sexoBeneficiario, porcentaje, esInvalidoTitular) ==
  LET lxTitular == calcularLx(edadTitular, sexoTitular, esInvalidoTitular)
      lxBeneficiario == calcularLx(edadBeneficiario, sexoBeneficiario, FALSE)
      maxEdad == Max(110 - edadTitular, 110 - edadBeneficiario)
  IN  IF maxEdad < 0 THEN 0
      ELSE IF lxTitular[1] = 0 \/ lxBeneficiario[1] = 0 THEN NaN
      ELSE SumaBeneficiario(0, maxEdad, edadTitular, sexoTitular, tasaInteres,
             edadBeneficiario, sexoBeneficiario, porcentaje, esInvalidoTitular)

\* the loop "Agregar CNU de beneficiarios" of calcularCNU
RECURSIVE SumaCargas(_, _, _, _, _, _)
SumaCargas(i, beneficiarios, edad, sexo, tasaInteres, esInvalido) ==
  IF i > Len(beneficiarios) THEN 0
  ELSE LET ben == beneficiarios[i]
           cnuBen == calcularCNUSobrevivenciaBeneficiario(edad, sexo, tasaInteres,
                       ben.edad, ben.sexo, ben.porcentajePension, esInvalido)
           resto == SumaCargas(i + 1, beneficiarios, edad, sexo, tasaInteres, esInvalido)
       IN  IF cnuBen = NaN \/ resto = NaN THEN NaN ELSE cnuBen + resto

\* the loop over t of calcularCNU for the ages 0..hasta of one cohort and
\* one rate: entry edad + 1 is the sum for the age edad (built in halves)
RECURSIVE TitularTablaDe(_, _, _, _, _)
TitularTablaDe(tabla, hasta, sexo, tasaInteres, esInvalido) ==
  IF Len(tabla) > hasta THEN tabla
  ELSE IF hasta - Len(tabla) >= 8
       THEN TitularTablaDe(
              TitularTablaDe(tabla, Len(tabla) + ((hasta - Len(tabla)) \div 2),
                             sexo, tasaInteres, esInvalido),
              hasta, sexo, tasaInteres, esInvalido)
  ELSE TitularTablaDe(
         Append(tabla, SumaTitular(0, (IF esInvalido THEN 81 ELSE 110) - Len(tabla),
                                   Len(tabla), sexo, tasaInteres, esInvalido)),
         hasta, sexo, tasaInteres, esInvalido)

TitularTablas ==
  [cohorte \in 1..4 |->
     [idx \in 1..3 |->
        TitularTablaDe(<<>>, MaxEdadLx, SexoDe(cohorte), TasaDe(idx), cohorte > 2)]]

\* the sum over t without its first term (t = 0)
CNUTitular_desdeUno(edad, sexo, tasaInteres, esInvalido) ==
  SumaTitular(1, (IF esInvalido THEN 81 ELSE 110) - edad, edad, sexo, tasaInteres, esInvalido)

\* the titular's part of calcularCNU (the sum over t): read from the table
\* for the ages 0..MaxEdadLx, empty beyond them, and summed for the ages below 0
CNUTitular(edad, sexo, tasaInteres, esInvalido) ==
  IF edad < 0
  THEN SumaTitular(0, (IF esInvalido THEN 81 ELSE 110) - edad, edad, sexo, tasaInteres,
                   esInvalido)
  ELSE TitularTablas[Cohorte(sexo, esInvalido)][TasaIdx(tasaInteres)][Min(edad, MaxEdadLx) + 1]

\* a CNU from which the part of the beneficiaries is taken away
calcularCNU_cargasRestadas(edad, sexo, tasaInteres, beneficiarios, esInvalido) ==
  LET titular == CNUTitular(edad, sexo, tasaInteres, esInvalido)
      cargas == SumaCargas(1, beneficiarios, edad, sexo, tasaInteres, esInvalido)
  IN  IF cargas = NaN THEN NaN ELSE (titular - cargas) * 12

\* calcularCNU, in millionths; beneficiarios is <<>> when absent or empty
calcularCNU(edad, sexo, tasaInteres, beneficiarios, esInvalido) ==
  LET titular == CNUTitular(edad, sexo, tasaInteres, esInvalido)
      cargas == SumaCargas(1, beneficiarios, edad, sexo, tasaInteres, esInvalido)
  IN  IF cargas = NaN THEN NaN ELSE (titular + cargas) * 12

\* calcularCNUIndividual, in millionths
calcularCNUIndividual(edad, sexo, tasaInteres) ==
  CNUTitular(edad, sexo, tasaInteres, FALSE) * 12

\* ------------------------------------------------------------------------
\* Guaranteed period and temporary increase
\* ------------------------------------------------------------------------

\* FACTORES_PERIODO_GARANTIZADO, in millionths, and its keys in order
FACTORES_PERIODO_GARANTIZADO ==
  [m \in {0, 60, 120, 180, 240, 300, 360} |->
     CASE m = 0 -> 1000000 [] m = 60 -> 985000 [] m = 120 -> 970000
       [] m = 180 -> 950000 [] m = 240 -> 925000 [] m = 300 -> 900000
       [] m = 360 -> 875000]

mesesKeys == <<0, 60, 120, 180, 240, 300, 360>>

\* the loop of calcularFactorGarantizado: <<lower, upper>> after the keys i..7
RECURSIVE BuscarTramo(_, _, _, _)
BuscarTramo(i, meses, lower, upper) ==
  IF i > Len(mesesKeys) THEN <<lower, upper>>
  ELSE BuscarTramo(i + 1, meses,
         IF mesesKeys[i] <= meses THEN mesesKeys[i] ELSE lower,
         IF mesesKeys[i] >= meses /\ upper = 360 THEN mesesKeys[i] ELSE upper)

\* the factor of the breakpoint below, with no interpolation
calcularFactorGarantizado_sinInterpolar(meses) ==
  IF meses <= 0 THEN 1000000
  ELSE IF meses >= 360 THEN 875000
  ELSE FACTORES_PERIODO_GARANTIZADO[BuscarTramo(1, meses, 0, 360)[1]]

\* calcularFactorGarantizado, in millionths
calcularFactorGarantizado(meses) ==
  IF meses \in DOMAIN FACTORES_PERIODO_GARANTIZADO THEN FACTORES_PERIODO_GARANTIZADO[meses]
  ELSE IF meses <= 0 THEN 1000000
  ELSE IF meses >= 360 THEN 875000
  ELSE LET tramo == BuscarTramo(1, meses, 0, 360)
           lower == tramo[1]
           upper == tramo[2]
           factorLower == FACTORES_PERIODO_GARANTIZADO[lower]
           factorUpper == FACTORES_PERIODO_GARANTIZADO[upper]
       IN  IF lower = upper THEN FACTORES_PERIODO_GARANTIZADO[lower]
           ELSE factorLower
                - MulDiv(factorLower - factorUpper, meses - lower, upper - lower)

\* Newton steps for the cube root of v, in millionths
RECURSIVE RaizCubica(_, _, _)
RaizCubica(v, s, n) ==
  IF n = 0 \/ (2 * s + MulDiv(MulDiv(v, P6, s), P6, s)) \div 3 = s THEN s
  ELSE RaizCubica(v, (2 * s + MulDiv(MulDiv(v, P6, s), P6, s)) \div 3, n - 1)

\* Math.pow(1 + tasaInteres, 1 / 12), in millionths
RaizDoce(tasaInteres) ==
  Raiz(Raiz(RaizCubica(P6 + tasaInteres, P6, 6), P6, 6), P6, 6)

MaxMeses == 121

\* Math.pow(1 + tasaInteres, mes / 12) for mes = 0..hasta (built in halves)
RECURSIVE PotenciaMensualDe(_, _, _)
PotenciaMensualDe(tabla, hasta, tasaInteres) ==
  IF Len(tabla) > hasta THEN tabla
  ELSE IF hasta - Len(tabla) >= 8
       THEN PotenciaMensualDe(
              PotenciaMensualDe(tabla, Len(tabla) + ((hasta - Len(tabla)) \div 2), tasaInteres),
              hasta, tasaInteres)
  ELSE IF Len(tabla) = 0 THEN PotenciaMensualDe(<<P6>>, hasta, tasaInteres)
  ELSE IF Len(tabla) % 12 = 0
       THEN PotenciaMensualDe(
              Append(tabla, FMul(tabla[Len(tabla) - 11], P6 + tasaInteres)), hasta, tasaInteres)
  ELSE PotenciaMensualDe(
         Append(tabla, FMul(tabla[Len(tabla)], RaizDoce(tasaInteres))), hasta, tasaInteres)

PotenciaMensual == [idx \in 1..3 |-> PotenciaMensualDe(<<>>, MaxMeses, TasaDe(idx))]

\* 1 / Math.pow(1 + tasaInteres, mes / 12), in millionths
factorDescuentoMes(tasaInteres, mes) ==
  MulDiv(P6, P6, PotenciaMensual[TasaIdx(tasaInteres)][Min(mes, MaxMeses) + 1])

\* the loop "for (let mes = 1; mes <= mesesAumento; mes++)": the sum of
\* incrementoMensual * factorDescuento over mes = desde..hasta
RECURSIVE costoAumentoDe(_, _, _, _)
costoAumentoDe(desde, hasta, incrementoMensual, tasaInteres) ==
  IF desde > hasta THEN 0
  ELSE IF desde = hasta
       THEN Escalar(incrementoMensual, factorDescuentoMes(tasaInteres, desde))
  ELSE Sumar(costoAumentoDe(desde, (desde + hasta) \div 2, incrementoMensual, tasaInteres),
             costoAumentoDe(((desde + hasta) \div 2) + 1, hasta, incrementoMensual, tasaInteres))

\* an increase taken as it is given
porcentajeNormalizadoDe_sinNormalizar(porcentajeAumento) == porcentajeAumento

\* porcentajeAumento > 1 ? porcentajeAumento / 100 : porcentajeAumento
porcentajeNormalizadoDe(porcentajeAumento) ==
  IF porcentajeAumento > P6 THEN porcentajeAumento \div 100 ELSE porcentajeAumento

\* ------------------------------------------------------------------------
\* Benefit formulas: old age
\* Results are ResultadoEscenario records: pensionMensual and the rounded
\* fields are pesos; pensionAnual and pensionReferencia are tenths of a
\* peso; pensionEnUF is millionths of a UF; cnu, tasaInteres and shares are
\* millionths; expectativaVida is thousandths of a year.
\* ------------------------------------------------------------------------

\* calcularExpectativaVida as a result field
expectativaVidaDe(edad, sexo, esInvalido) ==
  calcularExpectativaVida(edad, sexo, esInvalido) * 100

\* the fields every result has, from the unrounded monthly pension
Comunes(nombre, pensionMensual, cnu, tasaInteres, expectativaVida) ==
  [nombre |-> nombre,
   pensionMensual |-> Redondear(pensionMensual),
   pensionEnUF |-> EnUF(pensionMensual),
   pensionAnual |-> Por(pensionMensual, 12),
   cnu |-> cnu,
   tasaInteres |-> tasaInteres,
   expectativaVida |-> expectativaVida]

\* a scheduled withdrawal that deducts the premium of an annuity
calcularRetiroProgramado_conPrima(fondos, edad, sexo, tasaInteres, beneficiarios, proy) ==
  LET cnu == calcularCNU(edad, sexo, tasaInteres, beneficiarios, FALSE)
      pensionMensual == Dividir(Escalar(Pesos(fondos), 970000), cnu)
      expectativaVida == expectativaVidaDe(edad, sexo, FALSE)
  IN  Comunes("Retiro Programado", pensionMensual, cnu, tasaInteres, expectativaVida)
      @@ [proyeccion |-> proy]

\* calcularRetiroProgramado, given the projection its loop has built
calcularRetiroProgramado(fondos, edad, sexo, tasaInteres, beneficiarios, proy) ==
  LET cnu == calcularCNU(edad, sexo, tasaInteres, beneficiarios, FALSE)
      pensionMensual == Dividir(Pesos(fondos), cnu)
      expectativaVida == expectativaVidaDe(edad, sexo, FALSE)
  IN  Comunes("Retiro Programado", pensionMensual, cnu, tasaInteres, expectativaVida)
      @@ [proyeccion |-> proy]

calcularRVInmediata(fondos, edad, sexo, tasaInteres, beneficiarios) ==
  LET cnu == calcularCNU(edad, sexo, tasaInteres, beneficiarios, FALSE)
      primaSeguro == Escalar(Pesos(fondos), 30000)
      fondoDisponible == Restar(Pesos(fondos), primaSeguro)
      pensionMensual == Dividir(fondoDisponible, cnu)
      expectativaVida == expectativaVidaDe(edad, sexo, FALSE)
  IN  Comunes("Renta Vitalicia Inmediata", pensionMensual, cnu, tasaInteres, expectativaVida)

\* the guaranteed-period clause on an immediate annuity rvBase
ClausulaGarantizado(rvBase, mesesGarantizados, tasaInteres, nombre, avisos) ==
  LET factorAjuste == calcularFactorGarantizado(mesesGarantizados)
      pensionAjustada == Escalar(Pesos(rvBase.pensionMensual), factorAjuste)
  IN  Comunes(nombre, pensionAjustada, rvBase.cnu, tasaInteres, rvBase.expectativaVida)
      @@ [periodoGarantizado |-> mesesGarantizados,
          advertencias |-> <<"Periodo garantizado",
                             "Si fallece antes, beneficiarios reciben el 100% de la pension",
                             "Factor aplicado">> \o avisos]

calcularRVPeriodoGarantizado(fondos, edad, sexo, mesesGarantizados, tasaInteres, beneficiarios) ==
  ClausulaGarantizado(calcularRVInmediata(fondos, edad, sexo, tasaInteres, beneficiarios),
                      mesesGarantizados, tasaInteres, "RV con Garantia", <<>>)

\* Math.floor(mesesAumento / 12): the whole years of the increase
anosAumentoIntDe_piso(mesesAumento) == mesesAumento \div 12

\* Math.ceil(mesesAumento / 12)
anosAumentoIntDe(mesesAumento) == (mesesAumento + 11) \div 12

\* the maxAnos points of the projection of an annuity with a temporary increase
ProyeccionAumento(edad, mesesAumento, pensionAumentadaFinal, pensionBaseAjustada, maxAnos) ==
  [a \in 1..maxAnos |->
     [anio |-> a,
      edad |-> edad + (a - 1),
      pensionMensual |-> IF a - 1 < anosAumentoIntDe(mesesAumento)
                         THEN Redondear(pensionAumentadaFinal)
                         ELSE Redondear(pensionBaseAjustada),
      saldoAcumulado |-> 0,
      retiroAcumulado |-> 0,
      fase |-> IF a - 1 < anosAumentoIntDe(mesesAumento) THEN "aumento" ELSE "normal"]]

\* the temporary-increase clause on an immediate annuity rvBase:
\* <<pensionBaseAjustada, pensionAumentadaFinal, factorAjuste>>
SolverAumento(rvBase, fondos, mesesAumento, porcentajeAumento, tasaInteres) ==
  LET porcentajeNormalizado == porcentajeNormalizadoDe(porcentajeAumento)
      pensionVitalicia == Pesos(rvBase.pensionMensual)
      incrementoMensual == Escalar(pensionVitalicia, porcentajeNormalizado)
      costoAumento == costoAumentoDe(1, mesesAumento, incrementoMensual, tasaInteres)
      factorAjuste == Restar(P6, Dividir(costoAumento, Escalar(Pesos(fondos), 970000)))
      pensionBaseAjustada == Escalar(pensionVitalicia, MathMax(factorAjuste, 500000))
      pensionAumentadaFinal == Escalar(pensionBaseAjustada, P6 + porcentajeNormalizado)
  IN  <<pensionBaseAjustada, pensionAumentadaFinal, factorAjuste>>

\* the result of the temporary-increase clause
ClausulaAumento(rvBase, fondos, edad, mesesAumento, porcentajeAumento, tasaInteres, nombre, maxAnos, avisos) ==
  LET s == SolverAumento(rvBase, fondos, mesesAumento, porcentajeAumento, tasaInteres)
  IN  Comunes(nombre, s[2], rvBase.cnu, tasaInteres, rvBase.expectativaVida)
      @@ [aumentoTemporal |-> [meses |-> mesesAumento,
                               porcentaje |-> porcentajeAumento,
                               pensionAumentada |-> Redondear(s[2]),
                               pensionFinal |-> Redondear(s[1])],
          proyeccion |-> ProyeccionAumento(edad, mesesAumento, s[2], s[1], maxAnos),
          advertencias |-> <<"Aumento", "Pension durante aumento",
                             "Pension despues del periodo">> \o avisos]

calcularRVAumentoTemporal(fondos, edad, sexo, mesesAumento, porcentajeAumento, tasaInteres, beneficiarios) ==
  ClausulaAumento(calcularRVInmediata(fondos, edad, sexo, tasaInteres, beneficiarios),
                  fondos, edad, mesesAumento, porcentajeAumento, tasaInteres,
                  "RV con Aumento", 30, <<>>)

\* both clauses on an immediate annuity rvBase:
\* <<pensionBaseFinal, pensionAumentadaFinal, factorAjusteTotal>>
SolverAmbas(rvBase, fondos, mesesGarantizados, mesesAumento, porcentajeAumento, tasaInteres) ==
  LET porcentajeNormalizado == porcentajeNormalizadoDe(porcentajeAumento)
      factorGarantizado == calcularFactorGarantizado(mesesGarantizados)
      pensionBase == Escalar(Pesos(rvBase.pensionMensual), factorGarantizado)
      incrementoMensual == Escalar(pensionBase, porcentajeNormalizado)
      costoAumento == costoAumentoDe(1, mesesAumento, incrementoMensual, tasaInteres)
      factorAjusteTotal ==
        MathMax(Restar(factorGarantizado,
                       Dividir(costoAumento, Escalar(Pesos(fondos), 970000))), 450000)
      pensionBaseFinal == Escalar(Pesos(rvBase.pensionMensual), factorAjusteTotal)
      pensionAumentadaFinal == Escalar(pensionBaseFinal, P6 + porcentajeNormalizado)
  IN  <<pensionBaseFinal, pensionAumentadaFinal, factorAjusteTotal>>

\* the result of both clauses
ClausulaAmbas(rvBase, fondos, edad, mesesGarantizados, mesesAumento, porcentajeAumento, tasaInteres, nombre, maxAnos, avisos) ==
  LET s == SolverAmbas(rvBase, fondos, mesesGarantizados, mesesAumento,
                       porcentajeAumento, tasaInteres)
  IN  Comunes(nombre, s[2], rvBase.cnu, tasaInteres, rvBase.expectativaVida)
      @@ [periodoGarantizado |-> mesesGarantizados,
          aumentoTemporal |-> [meses |-> mesesAumento,
                               porcentaje |-> porcentajeAumento,
                               pensionAumentada |-> Redondear(s[2]),
                               pensionFinal |-> Redondear(s[1])],
          proyeccion |-> ProyeccionAumento(edad, mesesAumento, s[2], s[1], maxAnos),
          advertencias |-> <<"Aumento", "Garantia", "Pension aumento", "Pension final">>
                           \o avisos]

calcularRVConAmbasClausulas(fondos, edad, sexo, mesesGarantizados, mesesAumento, porcentajeAumento, tasaInteres, beneficiarios) ==
  ClausulaAmbas(calcularRVInmediata(fondos, edad, sexo, tasaInteres, beneficiarios),
                fondos, edad, mesesGarantizados, mesesAumento, porcentajeAumento,
                tasaInteres, "RV con Aumento y Garantia", 30, <<>>)

\* ------------------------------------------------------------------------
\* Benefit formulas: disability
\* ------------------------------------------------------------------------

\* a table that pays every degree as a total disability
PORCENTAJES_INVALIDEZ_total == [g \in {"total", "total_2_3", "parcial"} |-> 700000]

\* PORCENTAJES_INVALIDEZ, in millionths
PORCENTAJES_INVALIDEZ ==
  [g \in {"total", "total_2_3", "parcial"} |->
     CASE g = "total" -> 700000 [] g = "total_2_3" -> 500000 [] g = "parcial" -> 350000]

TablaInvalidos == "Usa tabla de mortalidad de invalidos (I-H/I-M-2020)"

\* Math.round(pensionMensual * 12 * k), in pesos
RetiroDe(pensionMensual, k) ==
  IF ~EsFinito(pensionMensual) THEN pensionMensual
  ELSE Signo(pensionMensual) * MulDiv(Abs(pensionMensual), 12 * k, 10)

calcularPensionInvalidez(fondos, edad, sexo, gradoInvalidez, ingresoBase, tasaInteres, beneficiarios, cubiertoSIS) ==
  LET porcentaje == PORCENTAJES_INVALIDEZ[gradoInvalidez]
      pensionReferencia == Escalar(Pesos(ingresoBase), porcentaje)
      cnu == calcularCNU(edad, sexo, tasaInteres, beneficiarios, TRUE)
      expectativaVida == expectativaVidaDe(edad, sexo, TRUE)
      capitalNecesario == Escalar(pensionReferencia, cnu)
      alcanzan == capitalNecesario # NaN /\ Pesos(fondos) >= capitalNecesario
      capitalSIS == IF cubiertoSIS /\ ~alcanzan
                    THEN Restar(capitalNecesario, Pesos(fondos)) ELSE 0
      pensionMensual == IF cubiertoSIS /\ ~alcanzan THEN pensionReferencia
                        ELSE Dividir(Pesos(fondos), cnu)
      maxAnos == Min(45, 81 - edad)
  IN  Comunes("Pension Invalidez", pensionMensual, cnu, tasaInteres, expectativaVida)
      @@ [gradoInvalidez |-> gradoInvalidez,
          ingresoBase |-> ingresoBase,
          porcentajeInvalidez |-> porcentaje,
          pensionReferencia |-> pensionReferencia,
          proyeccion |-> [a \in 1..maxAnos |->
                            [anio |-> a,
                             edad |-> edad + (a - 1),
                             pensionMensual |-> Redondear(pensionMensual),
                             saldoAcumulado |-> 0,
                             retiroAcumulado |-> RetiroDe(pensionMensual, a),
                             fase |-> "normal"]],
          advertencias |-> <<"Grado de invalidez", "Ingreso base", "Pension de referencia">>
                           \o (IF Menor(0, capitalSIS) THEN <<"Aporte SIS">> ELSE <<>>)]

\* calcularRetiroProgramadoInvalidez, given the projection its loop has built
calcularRetiroProgramadoInvalidez(fondos, edad, sexo, tasaInteres, beneficiarios, proy) ==
  LET cnu == calcularCNU(edad, sexo, tasaInteres, beneficiarios, TRUE)
      pensionMensual == Dividir(Pesos(fondos), cnu)
      expectativaVida == expectativaVidaDe(edad, sexo, TRUE)
  IN  Comunes("Retiro Programado (Invalidez)", pensionMensual, cnu, tasaInteres,
              expectativaVida)
      @@ [proyeccion |-> proy,
          advertencias |-> <<TablaInvalidos, "Pension decrece en el tiempo">>]

calcularRVInmediataInvalidez(fondos, edad, sexo, tasaInteres, beneficiarios) ==
  LET cnu == calcularCNU(edad, sexo, tasaInteres, beneficiarios, TRUE)
      primaSeguro == Escalar(Pesos(fondos), 30000)
      fondoDisponible == Restar(Pesos(fondos), primaSeguro)
      pensionMensual == Dividir(fondoDisponible, cnu)
      expectativaVida == expectativaVidaDe(edad, sexo, TRUE)
  IN  Comunes("RV Inmediata (Invalidez)", pensionMensual, cnu, tasaInteres, expectativaVida)
      @@ [advertencias |-> <<TablaInvalidos, "Tasa de interes para invalidez",
                             "Pension fija de por vida">>]

calcularRVPeriodoGarantizadoInvalidez(fondos, edad, sexo, mesesGarantizados, tasaInteres, beneficiarios) ==
  ClausulaGarantizado(
    calcularRVInmediataInvalidez(fondos, edad, sexo, tasaInteres, beneficiarios),
    mesesGarantizados, tasaInteres, "RV Invalidez Garantia", <<TablaInvalidos>>)

calcularRVAumentoTemporalInvalidez(fondos, edad, sexo, mesesAumento, porcentajeAumento, tasaInteres, beneficiarios) ==
  ClausulaAumento(
    calcularRVInmediataInvalidez(fondos, edad, sexo, tasaInteres, beneficiarios),
    fondos, edad, mesesAumento, porcentajeAumento, tasaInteres,
    "RV Invalidez con Aumento", Min(30, 81 - edad), <<TablaInvalidos>>)

calcularRVConAmbasClausulasInvalidez(fondos, edad, sexo, mesesGarantizados, mesesAumento, porcentajeAumento, tasaInteres, beneficiarios) ==
  ClausulaAmbas(
    calcularRVInmediataInvalidez(fondos, edad, sexo, tasaInteres, beneficiarios),
    fondos, edad, mesesGarantizados, mesesAumento, porcentajeAumento, tasaInteres,
    "RV Invalidez con Aumento y Garantia", Min(30, 81 - edad), <<TablaInvalidos>>)

\* ------------------------------------------------------------------------
\* Benefit formulas: survivorship
\* ------------------------------------------------------------------------

\* PORCENTAJES_SOBREVIVENCIA, in millionths
CONYUGE_SIN_HIJOS == 600000

CONYUGE_CON_HIJOS == 500000

CONVIVIENTE_SIN_HIJOS == 600000

CONVIVIENTE_CON_HIJOS == 500000

HIJO == 150000

PADRE_MADRE == 150000

\* beneficiarios.some(b => b.tipo === 'hijo')
tieneHijosEn(beneficiarios) ==
  \E i \in 1..Len(beneficiarios) : beneficiarios[i].tipo = "hijo"

tieneConyugeOHijosEn(beneficiarios) ==
  \E i \in 1..Len(beneficiarios) :
     beneficiarios[i].tipo \in {"conyuge", "conviviente", "hijo"}

\* a switch whose parents always have a share
porcentajeDe_padresSiempre(ben, beneficiarios) ==
  CASE ben.tipo \in {"conyuge", "conviviente"} ->
         (IF tieneHijosEn(beneficiarios) THEN CONYUGE_CON_HIJOS ELSE CONYUGE_SIN_HIJOS)
    [] ben.tipo = "hijo" -> HIJO
    [] OTHER -> PADRE_MADRE

\* the switch of calcularPorcentajesBeneficiarios for one beneficiary
porcentajeDe(ben, beneficiarios) ==
  CASE ben.tipo = "conyuge" ->
         (IF tieneHijosEn(beneficiarios) THEN CONYUGE_CON_HIJOS ELSE CONYUGE_SIN_HIJOS)
    [] ben.tipo = "conviviente" ->
         (IF tieneHijosEn(beneficiarios) THEN CONVIVIENTE_CON_HIJOS
          ELSE CONVIVIENTE_SIN_HIJOS)
    [] ben.tipo = "hijo" -> HIJO
    [] ben.tipo \in {"padre", "madre"} ->
         (IF ~tieneConyugeOHijosEn(beneficiarios) THEN PADRE_MADRE ELSE 0)
    [] OTHER -> 0

\* the loop of calcularPorcentajesBeneficiarios from the i-th beneficiary on
RECURSIVE PorcentajesDesde(_, _)
PorcentajesDesde(i, beneficiarios) ==
  IF i > Len(beneficiarios) THEN <<>>
  ELSE (IF porcentajeDe(beneficiarios[i], beneficiarios) > 0
        THEN << [tipo |-> beneficiarios[i].tipo,
                 porcentaje |-> porcentajeDe(beneficiarios[i], beneficiarios),
                 edad |-> beneficiarios[i].edad,
                 sexo |-> beneficiarios[i].sexo] >>
        ELSE <<>>)
       \o PorcentajesDesde(i + 1, beneficiarios)

calcularPorcentajesBeneficiarios(beneficiarios) == PorcentajesDesde(1, beneficiarios)

\* porcentajes.reduce((sum, b) => sum + b.porcentaje, 0)
RECURSIVE SumaPorcentajes(_, _)
SumaPorcentajes(porcentajes, n) ==
  IF n = 0 THEN 0 ELSE SumaPorcentajes(porcentajes, n - 1) + porcentajes[n].porcentaje

porcentajeTotalDe(porcentajes) == SumaPorcentajes(porcentajes, Len(porcentajes))

\* The shares are doubles, and the sum of doubles depends on the order of its
\* terms. A double of the sum is held exactly as the pair <<a, b>> standing for
\* (a * Limbo + b) * 2^-55: 0.15, 0.5 and 0.6 are the doubles nearest to them.
Limbo == 268435456

Doble(porcentaje) ==
  CASE porcentaje = 150000 -> <<20132659, 53687091>>
    [] porcentaje = 500000 -> <<67108864, 0>>
    [] porcentaje = 600000 -> <<80530636, 214748364>>
    [] OTHER -> <<0, 0>>

\* x + y of two doubles: the exact sum rounded to the 53 bits of a double,
\* ties to even; the unit in the last place is 2^k * 2^-55
DobleSumar(x, y) ==
  LET b0 == x[2] + y[2]
      a == x[1] + y[1] + b0 \div Limbo
      b == b0 % Limbo
      ulp == IF a >= 536870912 THEN 32 ELSE IF a >= 268435456 THEN 16
             ELSE IF a >= 134217728 THEN 8 ELSE IF a >= 67108864 THEN 4
             ELSE IF a >= 33554432 THEN 2 ELSE 1
      resto == b % ulp
      arriba == \/ 2 * resto > ulp
                \/ 2 * resto = ulp /\ (b \div ulp) % 2 = 1
      redondeado == IF arriba THEN b - resto + ulp ELSE b - resto
  IN  <<a + redondeado \div Limbo, redondeado % Limbo>>

\* porcentajes.reduce((sum, b) => sum + b.porcentaje, 0), as the doubles give it
RECURSIVE SumaDoble(_, _)
SumaDoble(porcentajes, n) ==
  IF n = 0 THEN <<0, 0>>
  ELSE DobleSumar(SumaDoble(porcentajes, n - 1), Doble(porcentajes[n].porcentaje))

porcentajeTotalDoble(porcentajes) == SumaDoble(porcentajes, Len(porcentajes))

\* a factor that never scales the shares down
factorAjusteDe_sinAjuste(porcentajeTotal) == P6

\* porcentajeTotal > 1 ? 1 / porcentajeTotal : 1
factorAjusteDe(porcentajeTotal) ==
  IF porcentajeTotal > P6 THEN MulDiv(P6, P6, porcentajeTotal) ELSE P6

\* the loop of calcularCNUSobrevivencia over the first n eligible beneficiaries
RECURSIVE SumaCNUSobrevivencia(_, _, _)
SumaCNUSobrevivencia(porcentajes, n, tasaInteres) ==
  IF n = 0 THEN 0
  ELSE SumaCNUSobrevivencia(porcentajes, n - 1, tasaInteres)
       + FMul(calcularCNUIndividual(porcentajes[n].edad, porcentajes[n].sexo, tasaInteres),
              porcentajes[n].porcentaje)

\* a survivorship CNU by the joint formula of a primary of 60 who has died
\* and a dependent who is alive
calcularCNUSobrevivencia_conjunta(beneficiarios, tasaInteres) ==
  LET cargas == SumaCargas(1, beneficiarios, 60, "M", tasaInteres, FALSE)
  IN  IF cargas = NaN THEN NaN ELSE cargas * 12

\* calcularCNUSobrevivencia(...).cnuTotal
calcularCNUSobrevivencia(beneficiarios, tasaInteres) ==
  LET porcentajes == calcularPorcentajesBeneficiarios(beneficiarios)
  IN  IF Len(porcentajes) = 0 THEN 0
      ELSE SumaCNUSobrevivencia(porcentajes, Len(porcentajes), tasaInteres)

\* the reference pension of the deceased, in tenths of a peso; an optional
\* argument is a sequence of length 0 (undefined) or 1
Definido(opcional) == Len(opcional) = 1

\* a resolution that puts the income base before the explicit value
pensionReferenciaDe_ingresoPrimero(fondosCausante, edadCausante, sexoCausante, pensionReferenciaCausante, ingresoBaseCausante, tasaInteres, cubiertoSIS) ==
  IF cubiertoSIS /\ Definido(ingresoBaseCausante) /\ ingresoBaseCausante[1] > 0
  THEN Escalar(Pesos(ingresoBaseCausante[1]), 700000)
  ELSE IF Definido(pensionReferenciaCausante) /\ pensionReferenciaCausante[1] > 0
  THEN Pesos(pensionReferenciaCausante[1])
  ELSE Dividir(Pesos(fondosCausante),
               calcularCNU(edadCausante, sexoCausante, tasaInteres, <<>>, FALSE))

pensionReferenciaDe(fondosCausante, edadCausante, sexoCausante, pensionReferenciaCausante, ingresoBaseCausante, tasaInteres, cubiertoSIS) ==
  IF Definido(pensionReferenciaCausante) /\ pensionReferenciaCausante[1] > 0
  THEN Pesos(pensionReferenciaCausante[1])
  ELSE IF cubiertoSIS /\ Definido(ingresoBaseCausante) /\ ingresoBaseCausante[1] > 0
  THEN Escalar(Pesos(ingresoBaseCausante[1]), 700000)
  ELSE Dividir(Pesos(fondosCausante),
               calcularCNU(edadCausante, sexoCausante, tasaInteres, <<>>, FALSE))

\* porcentajesBeneficiarios.reduce((sum, ben) => sum + calcularExpectativaVida(...), 0)
RECURSIVE SumaExpectativas(_, _)
SumaExpectativas(porcentajes, n) ==
  IF n = 0 THEN 0
  ELSE SumaExpectativas(porcentajes, n - 1)
       + calcularExpectativaVida(porcentajes[n].edad, porcentajes[n].sexo, FALSE)

\* a breakdown that pays the statutory shares without the adjustment
DistribuirReferencia_sinAjuste(porcentajes, pensionReferencia, factorAjuste) ==
  [i \in 1..Len(porcentajes) |->
     [tipo |-> porcentajes[i].tipo,
      porcentaje |-> FMul(porcentajes[i].porcentaje, factorAjuste),
      pensionMensual |-> Redondear(Escalar(pensionReferencia, porcentajes[i].porcentaje))]]

\* the breakdown of calcularPensionSobrevivencia: the reference pension times
\* each adjusted share
DistribuirReferencia(porcentajes, pensionReferencia, factorAjuste) ==
  [i \in 1..Len(porcentajes) |->
     [tipo |-> porcentajes[i].tipo,
      porcentaje |-> FMul(porcentajes[i].porcentaje, factorAjuste),
      pensionMensual |->
        Redondear(Escalar(pensionReferencia, FMul(porcentajes[i].porcentaje, factorAjuste)))]]

calcularPensionSobrevivencia(fondosCausante, edadCausante, sexoCausante, beneficiarios, pensionReferenciaCausante, ingresoBaseCausante, tasaInteres, cubiertoSIS) ==
  LET pensionReferencia ==
        pensionReferenciaDe(fondosCausante, edadCausante, sexoCausante,
          pensionReferenciaCausante, ingresoBaseCausante, tasaInteres, cubiertoSIS)
      porcentajesBeneficiarios == calcularPorcentajesBeneficiarios(beneficiarios)
      porcentajeTotal == porcentajeTotalDe(porcentajesBeneficiarios)
      factorAjuste == factorAjusteDe(porcentajeTotal)
      cnuTotal == calcularCNUSobrevivencia(beneficiarios, tasaInteres)
      pensionPorBeneficiario ==
        DistribuirReferencia(porcentajesBeneficiarios, pensionReferencia, factorAjuste)
      expectativaVidaPromedio ==
        IF Len(porcentajesBeneficiarios) > 0
        THEN MulDiv(SumaExpectativas(porcentajesBeneficiarios, Len(porcentajesBeneficiarios)),
                    100, Len(porcentajesBeneficiarios))
        ELSE 0
  IN  Comunes("Pension de Sobrevivencia",
              Escalar(pensionReferencia, Min(porcentajeTotal, P6)),
              cnuTotal, tasaInteres, expectativaVidaPromedio)
      @@ [pensionPorBeneficiario |-> pensionPorBeneficiario,
          pensionReferencia |-> pensionReferencia,
          advertencias |-> <<"Pension de referencia", "Total porcentajes">>
                           \o [i \in 1..Len(pensionPorBeneficiario) |->
                                 pensionPorBeneficiario[i].tipo]]

SinBeneficiarios == "DEBE AGREGAR AL MENOS UN BENEFICIARIO"

\* the record returned when no beneficiary is eligible
ErrorSinBeneficiarios(tasaInteres, avisos) ==
  [nombre |-> "Error: Sin Beneficiarios",
   pensionMensual |-> 0,
   pensionEnUF |-> 0,
   pensionAnual |-> 0,
   cnu |-> 0,
   tasaInteres |-> tasaInteres,
   expectativaVida |-> 0,
   advertencias |-> <<SinBeneficiarios>> \o avisos]

\* the record returned by calcularOpcionesSobrevivencia when a CNU is <= 0
ErrorCNU(nombre, tasaInteres, avisos) ==
  [nombre |-> nombre,
   pensionMensual |-> 0,
   pensionEnUF |-> 0,
   pensionAnual |-> 0,
   cnu |-> 0,
   tasaInteres |-> tasaInteres,
   expectativaVida |-> 0,
   advertencias |-> avisos]

\* the breakdown of the modality variants: the modality's own pension times
\* each share times factorAjuste
DistribuirPension(porcentajes, pensionMensual, factorAjuste) ==
  [i \in 1..Len(porcentajes) |->
     [tipo |-> porcentajes[i].tipo,
      porcentaje |-> FMul(porcentajes[i].porcentaje, factorAjuste),
      pensionMensual |->
        Redondear(Escalar(Escalar(pensionMensual, porcentajes[i].porcentaje), factorAjuste))]]

\* calcularExpectativaVida(porcentajes[0]?.edad || 60, porcentajes[0]?.sexo || 'F')
expectativaPrimero(porcentajes) ==
  expectativaVidaDe(IF porcentajes[1].edad = 0 THEN 60 ELSE porcentajes[1].edad,
                    porcentajes[1].sexo, FALSE)

Distribucion == "Distribucion segun Art. 58 DL 3500"

calcularRVInmediataSobrevivencia(fondosCausante, edadCausante, sexoCausante, beneficiarios, pensionReferenciaCausante, ingresoBaseCausante, tasaInteres) ==
  LET porcentajes == calcularPorcentajesBeneficiarios(beneficiarios)
      pensionReferencia ==
        pensionReferenciaDe(fondosCausante, edadCausante, sexoCausante,
          pensionReferenciaCausante, ingresoBaseCausante, tasaInteres, TRUE)
      cnuTotal == calcularCNUSobrevivencia(beneficiarios, tasaInteres)
      primaSeguro == Escalar(Pesos(fondosCausante), 30000)
      pensionMensual == Dividir(Restar(Pesos(fondosCausante), primaSeguro), cnuTotal)
      porcentajeTotal == porcentajeTotalDe(porcentajes)
      factorAjuste == factorAjusteDe(porcentajeTotal)
  IN  IF Len(porcentajes) = 0 THEN ErrorSinBeneficiarios(tasaInteres, <<>>)
      ELSE Comunes("RV Inmediata Sobrevivencia", pensionMensual, cnuTotal, tasaInteres,
                   expectativaPrimero(porcentajes))
           @@ [pensionPorBeneficiario |->
                 DistribuirPension(porcentajes, pensionMensual, factorAjuste),
               pensionReferencia |-> pensionReferencia,
               advertencias |-> <<"Pension fija de por vida", Distribucion>>]

\* rvBase.pensionPorBeneficiario?.map(b => ({...b, pensionMensual: Math.round(p * b.porcentaje)}))
Redistribuir(rvBase, pension) ==
  [i \in 1..Len(rvBase.pensionPorBeneficiario) |->
     [tipo |-> rvBase.pensionPorBeneficiario[i].tipo,
      porcentaje |-> rvBase.pensionPorBeneficiario[i].porcentaje,
      pensionMensual |->
        Redondear(Escalar(pension, rvBase.pensionPorBeneficiario[i].porcentaje))]]

\* the fields of r other than those of s ({...r, ...s})
Sobre(s, r) == s @@ r

calcularRVGarantizadoSobrevivencia(fondosCausante, edadCausante, sexoCausante, beneficiarios, mesesGarantizados, pensionReferenciaCausante, ingresoBaseCausante, tasaInteres) ==
  LET rvBase == calcularRVInmediataSobrevivencia(fondosCausante, edadCausante, sexoCausante,
                  beneficiarios, pensionReferenciaCausante, ingresoBaseCausante, tasaInteres)
      factorAjuste == calcularFactorGarantizado(mesesGarantizados)
      pensionAjustada == Escalar(Pesos(rvBase.pensionMensual), factorAjuste)
  IN  IF rvBase.pensionMensual = 0 THEN rvBase
      ELSE Sobre(
             Comunes("RV Sobrevivencia Garantia", pensionAjustada, rvBase.cnu,
                     rvBase.tasaInteres, rvBase.expectativaVida)
             @@ [periodoGarantizado |-> mesesGarantizados,
                 pensionPorBeneficiario |-> Redistribuir(rvBase, pensionAjustada),
                 advertencias |-> <<"Periodo garantizado", "Factor aplicado", Distribucion>>],
             rvBase)

calcularRVAumentoSobrevivencia(fondosCausante, edadCausante, sexoCausante, beneficiarios, mesesAumento, porcentajeAumento, pensionReferenciaCausante, ingresoBaseCausante, tasaInteres) ==
  LET rvBase == calcularRVInmediataSobrevivencia(fondosCausante, edadCausante, sexoCausante,
                  beneficiarios, pensionReferenciaCausante, ingresoBaseCausante, tasaInteres)
      s == SolverAumento(rvBase, fondosCausante, mesesAumento, porcentajeAumento, tasaInteres)
  IN  IF rvBase.pensionMensual = 0 THEN rvBase
      ELSE Comunes("RV Sobrevivencia con Aumento", s[2], rvBase.cnu, tasaInteres,
                   rvBase.expectativaVida)
           @@ [aumentoTemporal |-> [meses |-> mesesAumento,
                                    porcentaje |-> porcentajeAumento,
                                    pensionAumentada |-> Redondear(s[2]),
                                    pensionFinal |-> Redondear(s[1])],
               pensionPorBeneficiario |-> Redistribuir(rvBase, s[2]),
               pensionReferencia |-> rvBase.pensionReferencia,
               advertencias |-> <<"Aumento", "Pension durante aumento", "Pension despues",
                                  Distribucion>>]

calcularRVAmbasSobrevivencia(fondosCausante, edadCausante, sexoCausante, beneficiarios, mesesGarantizados, mesesAumento, porcentajeAumento, pensionReferenciaCausante, ingresoBaseCausante, tasaInteres) ==
  LET rvBase == calcularRVInmediataSobrevivencia(fondosCausante, edadCausante, sexoCausante,
                  beneficiarios, pensionReferenciaCausante, ingresoBaseCausante, tasaInteres)
      s == SolverAmbas(rvBase, fondosCausante, mesesGarantizados, mesesAumento,
                       porcentajeAumento, tasaInteres)
  IN  IF rvBase.pensionMensual = 0 THEN rvBase
      ELSE Comunes("RV Sobrevivencia con Aumento y Garantia", s[2], rvBase.cnu, tasaInteres,
                   rvBase.expectativaVida)
           @@ [periodoGarantizado |-> mesesGarantizados,
               aumentoTemporal |-> [meses |-> mesesAumento,
                                    porcentaje |-> porcentajeAumento,
                                    pensionAumentada |-> Redondear(s[2]),
                                    pensionFinal |-> Redondear(s[1])],
               pensionPorBeneficiario |-> Redistribuir(rvBase, s[2]),
               pensionReferencia |-> rvBase.pensionReferencia,
               advertencias |-> <<"Aumento", "Garantia", "Pension aumento", "Pension final",
                                  Distribucion>>]

\* calcularRetiroProgramadoSobrevivencia, given the projection its loop has built
calcularRetiroProgramadoSobrevivencia(fondosCausante, edadCausante, sexoCausante, beneficiarios, pensionReferenciaCausante, ingresoBaseCausante, tasaInteres, proy) ==
  LET porcentajes == calcularPorcentajesBeneficiarios(beneficiarios)
      pensionReferencia ==
        pensionReferenciaDe(fondosCausante, edadCausante, sexoCausante,
          pensionReferenciaCausante, ingresoBaseCausante, tasaInteres, TRUE)
      cnuTotal == calcularCNUSobrevivencia(beneficiarios, tasaInteres)
      pensionMensual == Dividir(Pesos(fondosCausante), cnuTotal)
      porcentajeTotal == porcentajeTotalDe(porcentajes)
      factorAjuste == factorAjusteDe(porcentajeTotal)
  IN  IF Len(porcentajes) = 0 THEN ErrorSinBeneficiarios(tasaInteres, <<>>)
      ELSE Comunes("Retiro Programado Sobrevivencia", pensionMensual, cnuTotal, tasaInteres,
                   expectativaPrimero(porcentajes))
           @@ [pensionPorBeneficiario |->
                 DistribuirPension(porcentajes, pensionMensual, factorAjuste),
               pensionReferencia |-> pensionReferencia,
               proyeccion |-> proy,
               advertencias |-> <<"Pension decrece en el tiempo", Distribucion>>]

\* calcularOpcionesSobrevivencia, given the projection its loop has built
calcularOpcionesSobrevivencia(fondosCausante, edadCausante, sexoCausante, beneficiarios, pensionReferenciaCausante, ingresoBaseCausante, tasaRP, tasaRV, proy) ==
  LET porcentajes == calcularPorcentajesBeneficiarios(beneficiarios)
      pensionReferencia ==
        pensionReferenciaDe(fondosCausante, edadCausante, sexoCausante,
          pensionReferenciaCausante, ingresoBaseCausante, tasaRP, TRUE)
      porcentajeTotal == porcentajeTotalDe(porcentajes)
      factorAjuste == factorAjusteDe(porcentajeTotal)
      cnuRP == calcularCNUSobrevivencia(beneficiarios, tasaRP)
      pensionRP == Dividir(Pesos(fondosCausante), cnuRP)
      opcionRP ==
        Comunes("Retiro Programado Sobrevivencia", pensionRP, cnuRP, tasaRP,
                expectativaPrimero(porcentajes))
        @@ [pensionPorBeneficiario |-> DistribuirPension(porcentajes, pensionRP, factorAjuste),
            pensionReferencia |-> pensionReferencia,
            proyeccion |-> proy,
            advertencias |-> <<"Pension decrece en el tiempo", Distribucion>>]
      cnuRV == calcularCNUSobrevivencia(beneficiarios, tasaRV)
      primaSeguro == Escalar(Pesos(fondosCausante), 30000)
      pensionRV == Dividir(Restar(Pesos(fondosCausante), primaSeguro), cnuRV)
      opcionRV ==
        Comunes("Renta Vitalicia Sobrevivencia", pensionRV, cnuRV, tasaRV,
                expectativaPrimero(porcentajes))
        @@ [pensionPorBeneficiario |-> DistribuirPension(porcentajes, pensionRV, factorAjuste),
            pensionReferencia |-> pensionReferencia,
            advertencias |-> <<"Pension fija de por vida", Distribucion>>]
  IN  IF Len(porcentajes) = 0
      THEN << ErrorSinBeneficiarios(tasaRP,
                <<"Los beneficiarios son requeridos para pension de sobrevivencia">>) >>
      ELSE IF cnuRP <= 0
      THEN << ErrorCNU("Error en CNU", tasaRP,
                <<"Error en el calculo del CNU", "Verifique los datos de los beneficiarios">>) >>
      ELSE IF cnuRV <= 0
      THEN << opcionRP, ErrorCNU("Error en CNU RV", tasaRV,
                                 <<"Error en el calculo del CNU para RV">>) >>
      ELSE << opcionRP, opcionRV >>

\* ------------------------------------------------------------------------
\* The calculation endpoint (POST): one request at a time
\* ------------------------------------------------------------------------

VARIABLES
  pc,               \* "espera": no request; "proyeccion": inside the year loop of a
                    \* scheduled withdrawal; "fin": the response is written
  peticion,         \* the request body {tipo, datos}; datos is <<>> when undefined
  respuesta,        \* the JSON response and its HTTP status
  evaluadas,        \* the engine formulas called for the request, in order
  anio,             \* the loop counter of the year loop
  saldo,            \* its remaining balance, a decimal floating-point pair
  retiroAcumulado,  \* its withdrawn total, in tenths of a peso
  proyeccion,       \* the points it has pushed
  anterior,         \* history: <<>>, or one earlier request with the response it got
  lote,             \* the batch of scenarios of the page (calcular) and its results
  uf                \* the endpoint /api/uf: its cache, the clock and its GETs in flight

vars == <<pc, peticion, respuesta, evaluadas, anio, saldo, retiroAcumulado, proyeccion, anterior, lote, uf>>

\* an optional field: <<>> when absent, <<v>> when present
Opcional(valores) == {<<>>} \cup {<<v>> : v \in valores}

\* datos.campo ?? porDefecto
ValorO(opcional, porDefecto) == IF Definido(opcional) THEN opcional[1] ELSE porDefecto

Sexos == {"M", "F"}

Fondos == {-1000000, 0, 50000000}

EdadesVejez == {60, 65, 110, 111}

EdadesInvalidez == {30, 36, 81, 82}

EdadesCausante == {50, 111}

FondosCausante == {0, 50000000}

Conyuge == [tipo |-> "conyuge", edad |-> 60, sexo |-> "F", porcentajePension |-> 600000]

Conviviente == [tipo |-> "conviviente", edad |-> 58, sexo |-> "M", porcentajePension |-> 600000]

Hijo == [tipo |-> "hijo", edad |-> 10, sexo |-> "M", porcentajePension |-> 150000]

Padre == [tipo |-> "padre", edad |-> 85, sexo |-> "M", porcentajePension |-> 150000]

Madre == [tipo |-> "madre", edad |-> 111, sexo |-> "F", porcentajePension |-> 150000]

Perfiles == {Conyuge, Conviviente, Hijo, Padre, Madre}

MaxFamilia == 1

\* the beneficiary lists of at most n persons
RECURSIVE ListasHasta(_, _)
ListasHasta(perfiles, n) ==
  IF n = 0 THEN {<<>>}
  ELSE ListasHasta(perfiles, n - 1)
       \cup {Append(l, p) : l \in {m \in ListasHasta(perfiles, n - 1) : Len(m) = n - 1},
                            p \in perfiles}

\* the survivors named in the requests
Deudos == {Conyuge, Hijo, Madre}

Familias == ListasHasta(Deudos, MaxFamilia)

\* the dependents of an old-age or disability pensioner
Cargas == {<<>>, <<Conyuge>>}

TasasPedidas == Opcional({RENTA_VITALICIA_INVALIDEZ})

MesesGarantizadosPedidos == {0, 90}

MesesAumentoPedidos == {18}

\* 10 (a whole percent) and 0.5 (a fraction)
PorcentajesAumentoPedidos == {10000000, 500000}

DatosVejez ==
  [fondos : Fondos, edad : EdadesVejez, sexo : Sexos, tasaInteres : TasasPedidas,
   beneficiarios : Cargas]

DatosInvalidez ==
  [fondos : Fondos, edad : EdadesInvalidez, sexo : Sexos, tasaInteres : TasasPedidas,
   beneficiarios : Cargas]

DatosSobrevivencia ==
  [fondos : FondosCausante, edad : EdadesCausante, sexo : {"M"}, tasaInteres : TasasPedidas,
   beneficiarios : Familias,
   pensionReferenciaCausante : Opcional({0, 500000}),
   ingresoBaseCausante : Opcional({1000000})]

Espera == [success |-> FALSE, status |-> 0]

SinPeticion == [tipo |-> "", datos |-> <<>>]

\* no batch: the state of the page before calcular, setResultados([])
SinLote ==
  [fase |-> "reposo", formulario |-> <<>>, pendientes |-> <<>>, porDefecto |-> FALSE,
   escenariosCalculados |-> <<>>, enviadas |-> <<>>, resultados |-> <<>>]

\* ---- the endpoint /api/uf ----

\* the largest number of GETs, and of steps of the clock
MaxGET == 3

MaxTics == 4

\* const CACHE_DURATION = 3600000
CACHE_DURATION == 3600000

\* const UF_FALLBACK = 39600
UF_FALLBACK == 39600

\* the clock moves by a third of the life of the cache
Paso == CACHE_DURATION \div 3

\* Date.now() at the start: two steps before midnight of the first day
RelojInicial == 86400000 - (2 * Paso)

\* new Date().toISOString().split('T')[0], as the number of the day
FechaDe(reloj) == reloj \div 86400000

\* a GET that has not come yet
GetLibre ==
  [pc |-> "libre", ufValue |-> 0, foundDate |-> 0, vistos |-> 0, consulto |-> FALSE,
   respondido |-> 0, respuesta |-> <<>>]

\* let cachedUF = null; no GET has come.  almacenados is the history of the
\* values written to cachedUF.
SinUF ==
  [cachedUF |-> <<>>, reloj |-> RelojInicial, almacenados |-> <<>>,
   gets |-> [g \in 1..MaxGET |-> GetLibre]]

Init ==
  /\ pc = "espera"
  /\ peticion = SinPeticion
  /\ respuesta = Espera
  /\ evaluadas = <<>>
  /\ anio = 0
  /\ saldo = <<0, 0>>
  /\ retiroAcumulado = 0
  /\ proyeccion = <<>>
  /\ anterior = <<>>
  /\ lote = SinLote
  /\ uf = SinUF

\* The balance of a year loop is a double that shrinks by orders of magnitude
\* without becoming 0: it is held, as are the pensions drawn from it, as a
\* decimal floating-point pair <<m, k>> standing for m * 10^(-k) tenths of a
\* peso, with 10^8 <= |m| < 10^9 unless m = 0.
RECURSIVE Flotante(_, _)
Flotante(m, k) ==
  IF m = 0 THEN <<0, 0>>
  ELSE IF Abs(m) < 100000000 THEN Flotante(m * 10, k + 1)
  ELSE IF Abs(m) >= 1000000000 THEN Flotante(Signo(m) * ((Abs(m) + 5) \div 10), k - 1)
  ELSE <<m, k>>

\* the mantissa of x at the exponent k <= x[2]
Alinear(x, k) ==
  IF x[2] - k > 9 THEN 0 ELSE Signo(x[1]) * MulDiv(Abs(x[1]), 1, Pow10(x[2] - k))

\* a + b and a - b
FSumar(a, b) ==
  IF a[1] = 0 THEN b
  ELSE IF b[1] = 0 THEN a
  ELSE IF a[2] <= b[2] THEN Flotante(a[1] + Alinear(b, a[2]), a[2])
  ELSE Flotante(Alinear(a, b[2]) + b[1], b[2])

FRestar(a, b) == FSumar(a, <<0 - b[1], b[2]>>)

\* x / cnu for a CNU > 0 in millionths
FDividir(x, cnu) ==
  LET e == IF cnu >= 100000000 THEN 2 ELSE IF cnu >= 10000000 THEN 1 ELSE 0
  IN  Flotante(Signo(x[1]) * MulDiv(Abs(x[1]), P6 * Pow10(e), cnu), x[2] + e)

\* x * 12
FPor12(x) == Flotante(Signo(x[1]) * MulDiv(Abs(x[1]), 12, 10), x[2] - 1)

\* x * f for a factor f > 0 in millionths
FEscalar(x, f) == Flotante(Signo(x[1]) * FMul(Abs(x[1]), f), x[2])

\* Math.round(x), in pesos
FRedondear(x) ==
  IF x[2] + 1 > 9 THEN 0
  ELSE IF x[2] + 1 >= 0
       THEN (x[1] + (Pow10(x[2] + 1) \div 2)) \div Pow10(x[2] + 1)
  ELSE x[1] * Pow10(0 - (x[2] + 1))

\* x in tenths of a peso
FDecimas(x) ==
  IF x[2] > 9 THEN 0
  ELSE IF x[2] >= 0 THEN Signo(x[1]) * MulDiv(Abs(x[1]), 1, Pow10(x[2]))
  ELSE x[1] * Pow10(0 - x[2])

\* NextResponse.json({ success: true, resultado })
Exito(resultado) == [success |-> TRUE, status |-> 200, resultado |-> resultado]

\* the body of the fetch of the request tipo of the form
PeticionDe(form, tipo) ==
  LET tasa == IF tipo \in {"invalidez", "sobrevivencia_opciones"} THEN <<>>
              ELSE IF tipo \in {"retiro_programado", "invalidez_rp", "sobrevivencia_rp"}
                   THEN <<RETIRO_PROGRAMADO>>
              ELSE <<RENTA_VITALICIA_VEJEZ>>
      comunes == [fondos |-> 50000000,
                  edad |-> IF form.tipoPension = "invalidez" THEN 50 ELSE 65,
                  sexo |-> "M", tasaInteres |-> tasa, beneficiarios |-> form.beneficiarios]
      datos == IF form.tipoPension = "sobrevivencia"
               THEN comunes @@ [pensionReferenciaCausante |-> <<>>,
                                ingresoBaseCausante |-> <<1000000>>]
               ELSE comunes
      garantia == [mesesGarantizados |-> 90]
      aumento == [mesesAumento |-> 18, porcentajeAumento |-> 10000000]
  IN  [tipo |-> tipo,
       datos |->
         << CASE tipo \in {"periodo_garantizado", "invalidez_rv_garantizado",
                           "sobrevivencia_rv_garantizado"} -> datos @@ garantia
              [] tipo \in {"aumento_temporal", "invalidez_rv_aumento"} -> datos @@ aumento
              [] tipo \in {"ambas", "invalidez_rv_ambas"} -> datos @@ garantia @@ aumento
              [] tipo = "invalidez" ->
                   datos @@ [gradoInvalidez |-> <<"parcial">>, ingresoBase |-> <<600000>>,
                             cubiertoSIS |-> <<FALSE>>]
              [] OTHER -> datos >>]

\* await fetch('/api/pension', ...): while the page runs a batch the endpoint
\* is sent the next request of the batch; with no page open (reposo) any
\* client sends any request
Admitida(tipo, datos) ==
  \/ lote.fase = "reposo"
  \/ /\ lote.fase = "enviando"
     /\ lote.pendientes # <<>>
     /\ Head(lote.pendientes) = tipo
     /\ PeticionDe(lote.formulario[1], tipo) = [tipo |-> tipo, datos |-> <<datos>>]

\* the year loop entered with a withdrawn total that an earlier call left behind
Proyectar_conArrastre(tipo, datos, formulas) ==
  /\ pc = "espera"
  /\ Admitida(tipo, datos)
  /\ pc' = "proyeccion"
  /\ peticion' = [tipo |-> tipo, datos |-> <<datos>>]
  /\ evaluadas' = formulas
  /\ respuesta' = Espera
  /\ anio' = 0
  /\ saldo' = Flotante(Pesos(datos.fondos), 0)
  /\ retiroAcumulado' = Len(anterior) * Pesos(datos.fondos)
  /\ proyeccion' = <<>>
  /\ UNCHANGED <<anterior, lote, uf>>

\* a request whose formula enters its year loop with the balance fondos
Proyectar(tipo, datos, formulas) ==
  /\ pc = "espera"
  /\ Admitida(tipo, datos)
  /\ pc' = "proyeccion"
  /\ peticion' = [tipo |-> tipo, datos |-> <<datos>>]
  /\ evaluadas' = formulas
  /\ respuesta' = Espera
  /\ anio' = 0
  /\ saldo' = Flotante(Pesos(datos.fondos), 0)
  /\ retiroAcumulado' = 0
  /\ proyeccion' = <<>>
  /\ UNCHANGED <<anterior, lote, uf>>

\* one iteration of a year loop: const pensionAnual = saldo / cnuAnual * 12;
\* const pensionMes = pensionAnual / 12
PensionMes(cnuAnual) == FDividir(saldo, cnuAnual)

PensionAnual(cnuAnual) == FPor12(PensionMes(cnuAnual))

\* the point pushed
PuntoDe(edadActual, pensionMes) ==
  [anio |-> anio + 1,
   edad |-> edadActual,
   pensionMensual |-> FRedondear(pensionMes),
   saldoAcumulado |-> FRedondear(saldo),
   retiroAcumulado |-> Redondear(retiroAcumulado),
   fase |-> "decreciente"]

\* a balance that is not floored at zero
SaldoSiguiente_sinPiso(pensionAnual, tasaInteres) ==
  FEscalar(FRestar(saldo, pensionAnual), P6 + tasaInteres)

\* saldo = Math.max(0, (saldo - pensionAnual) * (1 + tasaInteres))
SaldoSiguiente(pensionAnual, tasaInteres) ==
  IF FEscalar(FRestar(saldo, pensionAnual), P6 + tasaInteres)[1] <= 0 THEN <<0, 0>>
  ELSE FEscalar(FRestar(saldo, pensionAnual), P6 + tasaInteres)

\* the loop goes on with the next year
Seguir(punto, pensionAnual, tasaInteres, conRetiro) ==
  /\ pc' = "proyeccion"
  /\ anio' = anio + 1
  /\ saldo' = SaldoSiguiente(pensionAnual, tasaInteres)
  /\ retiroAcumulado' = IF conRetiro THEN retiroAcumulado + FDecimas(pensionAnual) ELSE 0
  /\ proyeccion' = Append(proyeccion, punto)
  /\ UNCHANGED <<peticion, respuesta, evaluadas, anterior, lote, uf>>

\* the loop is left and the function returns: the response is written, and
\* saldo keeps the balance the loop ended with
Volver(contenido, saldoFinal) ==
  /\ pc' = "fin"
  /\ respuesta' = contenido
  /\ anio' = 0
  /\ saldo' = saldoFinal
  /\ retiroAcumulado' = 0
  /\ proyeccion' = <<>>
  /\ UNCHANGED <<peticion, evaluadas, anterior, lote, uf>>

\* the response whose retiro programado carries the projection the loop built
ConProyeccion(contenido, proy) ==
  IF "resultado" \in DOMAIN contenido
  THEN [contenido EXCEPT !.resultado.proyeccion = proy]
  ELSE [contenido EXCEPT !.resultados[1].proyeccion = proy]

\* one pass of the year loop of the request <<tipo, datos>>: cnuPorAnio[a] is
\* the CNU the pass of the year a computes, tope the last year of the loop,
\* contenido the response of the function before its projection is filled
Iterar(tipo, datos, cnuPorAnio, tope, tasaInteres, conRetiro, contenido) ==
  /\ pc = "proyeccion"
  /\ peticion = [tipo |-> tipo, datos |-> <<datos>>]
  /\ LET pensionAnual == PensionAnual(cnuPorAnio[anio])
         punto == PuntoDe(datos.edad + anio, PensionMes(cnuPorAnio[anio]))
     IN  IF \/ SaldoSiguiente(pensionAnual, tasaInteres)[1] <= 0
            \/ anio + 1 > tope
         THEN Volver(ConProyeccion(contenido, Append(proyeccion, punto)),
                     SaldoSiguiente(pensionAnual, tasaInteres))
         ELSE Seguir(punto, pensionAnual, tasaInteres, conRetiro)

\* a request whose formula has no year loop: the response is written at once
Responder(tipo, datos, formulas, contenido) ==
  /\ pc = "espera"
  /\ Admitida(tipo, datos)
  /\ pc' = "fin"
  /\ peticion' = [tipo |-> tipo, datos |-> <<datos>>]
  /\ evaluadas' = formulas
  /\ respuesta' = contenido
  /\ UNCHANGED <<anio, saldo, retiroAcumulado, proyeccion, anterior, lote, uf>>

\* a request whose formula has a year loop: the loop is entered when it has a
\* first pass (conBucle), else the function returns at once
Entrar(conBucle, tipo, datos, formulas, contenido) ==
  IF conBucle THEN Proyectar(tipo, datos, formulas)
  ELSE Responder(tipo, datos, formulas, contenido)

\* const tasaInteres = datos.tasaInteres ?? TASAS_INTERES.RETIRO_PROGRAMADO
tasaInteresDe(datos) == ValorO(datos.tasaInteres, RETIRO_PROGRAMADO)

\* const tasaRV = datos.tasaInteres ?? TASAS_INTERES.RENTA_VITALICIA_VEJEZ
tasaRVDe(datos) == ValorO(datos.tasaInteres, RENTA_VITALICIA_VEJEZ)

\* datos.tasaInteres ?? TASAS_INTERES.RENTA_VITALICIA_INVALIDEZ
tasaInvalidezDe(datos) == ValorO(datos.tasaInteres, RENTA_VITALICIA_INVALIDEZ)

\* datos.tasaInteres ?? TASAS_INTERES.SOBREVIVENCIA
tasaSobrevivenciaDe(datos) == ValorO(datos.tasaInteres, SOBREVIVENCIA)

\* ---- old age ----

POST_retiro_programado(Datos) ==
  \E datos \in Datos :
    Entrar(0 <= Min(45, 110 - datos.edad),
           "retiro_programado", datos, <<"calcularRetiroProgramado">>,
           Exito(calcularRetiroProgramado(datos.fondos, datos.edad, datos.sexo,
                   tasaInteresDe(datos), datos.beneficiarios, <<>>)))

\* the loop "for (let año = 0; año <= Math.min(45, 110 - edad); año++)":
\* const edadActual = edad + año; const cnuAnual = calcularCNU(edadActual, ...)
IterarRetiroProgramado(Datos) ==
  \E datos \in Datos :
    Iterar("retiro_programado", datos,
           [a \in 0..Min(45, 110 - datos.edad) |->
              calcularCNU(datos.edad + a, datos.sexo, tasaInteresDe(datos), <<>>, FALSE)],
           Min(45, 110 - datos.edad), tasaInteresDe(datos), TRUE,
           Exito(calcularRetiroProgramado(datos.fondos, datos.edad, datos.sexo,
                   tasaInteresDe(datos), datos.beneficiarios, <<>>)))

POST_inmediata(Datos) ==
  \E datos \in Datos :
    Responder("inmediata", datos, <<"calcularRVInmediata">>,
      Exito(calcularRVInmediata(datos.fondos, datos.edad, datos.sexo, tasaRVDe(datos),
                                datos.beneficiarios)))

POST_periodo_garantizado(Datos) ==
  \E datos \in Datos, mesesGarantizados \in MesesGarantizadosPedidos :
    Responder("periodo_garantizado",
      datos @@ [mesesGarantizados |-> mesesGarantizados],
      <<"calcularRVPeriodoGarantizado">>,
      Exito(calcularRVPeriodoGarantizado(datos.fondos, datos.edad, datos.sexo,
              mesesGarantizados, tasaRVDe(datos), datos.beneficiarios)))

POST_aumento_temporal(Datos) ==
  \E datos \in Datos, mesesAumento \in MesesAumentoPedidos,
     porcentajeAumento \in PorcentajesAumentoPedidos :
    Responder("aumento_temporal",
      datos @@ [mesesAumento |-> mesesAumento, porcentajeAumento |-> porcentajeAumento],
      <<"calcularRVAumentoTemporal">>,
      Exito(calcularRVAumentoTemporal(datos.fondos, datos.edad, datos.sexo, mesesAumento,
              porcentajeAumento, tasaRVDe(datos), datos.beneficiarios)))

POST_ambas(Datos) ==
  \E datos \in Datos, mesesGarantizados \in MesesGarantizadosPedidos,
     mesesAumento \in MesesAumentoPedidos,
     porcentajeAumento \in PorcentajesAumentoPedidos :
    Responder("ambas",
      datos @@ [mesesGarantizados |-> mesesGarantizados, mesesAumento |-> mesesAumento,
                porcentajeAumento |-> porcentajeAumento],
      <<"calcularRVConAmbasClausulas">>,
      Exito(calcularRVConAmbasClausulas(datos.fondos, datos.edad, datos.sexo,
              mesesGarantizados, mesesAumento, porcentajeAumento, tasaRVDe(datos),
              datos.beneficiarios)))

\* ---- disability ----

GradosPedidos == Opcional({"total_2_3", "parcial"})

IngresosBasePedidos == Opcional({0, 600000})

CoberturasPedidas == Opcional({FALSE})

POST_invalidez(Datos) ==
  \E datos \in Datos, gradoInvalidez \in GradosPedidos,
     ingresoBase \in IngresosBasePedidos, cubiertoSIS \in CoberturasPedidas :
    Responder("invalidez",
      datos @@ [gradoInvalidez |-> gradoInvalidez, ingresoBase |-> ingresoBase,
                cubiertoSIS |-> cubiertoSIS],
      <<"calcularPensionInvalidez">>,
      Exito(calcularPensionInvalidez(datos.fondos, datos.edad, datos.sexo,
              ValorO(gradoInvalidez, "total"),
              IF Definido(ingresoBase) /\ ingresoBase[1] # 0 THEN ingresoBase[1] ELSE 800000,
              tasaInvalidezDe(datos), datos.beneficiarios, ValorO(cubiertoSIS, TRUE))))

POST_invalidez_rp(Datos) ==
  \E datos \in Datos :
    Entrar(0 <= Min(45, 81 - datos.edad),
           "invalidez_rp", datos, <<"calcularRetiroProgramadoInvalidez">>,
           Exito(calcularRetiroProgramadoInvalidez(datos.fondos, datos.edad, datos.sexo,
                   tasaInteresDe(datos), datos.beneficiarios, <<>>)))

\* the loop "for (let año = 0; año <= maxAnos; año++)":
\* const cnuAnual = calcularCNU(edadActual, sexo, tasaInteres, undefined, true)
IterarRetiroProgramadoInvalidez(Datos) ==
  \E datos \in Datos :
    Iterar("invalidez_rp", datos,
           [a \in 0..Min(45, 81 - datos.edad) |->
              calcularCNU(datos.edad + a, datos.sexo, tasaInteresDe(datos), <<>>, TRUE)],
           Min(45, 81 - datos.edad), tasaInteresDe(datos), TRUE,
           Exito(calcularRetiroProgramadoInvalidez(datos.fondos, datos.edad, datos.sexo,
                   tasaInteresDe(datos), datos.beneficiarios, <<>>)))

POST_invalidez_rv_inmediata(Datos) ==
  \E datos \in Datos :
    Responder("invalidez_rv_inmediata", datos, <<"calcularRVInmediataInvalidez">>,
      Exito(calcularRVInmediataInvalidez(datos.fondos, datos.edad, datos.sexo,
              tasaInvalidezDe(datos), datos.beneficiarios)))

POST_invalidez_rv_garantizado(Datos) ==
  \E datos \in Datos, mesesGarantizados \in MesesGarantizadosPedidos :
    Responder("invalidez_rv_garantizado",
      datos @@ [mesesGarantizados |-> mesesGarantizados],
      <<"calcularRVPeriodoGarantizadoInvalidez">>,
      Exito(calcularRVPeriodoGarantizadoInvalidez(datos.fondos, datos.edad, datos.sexo,
              mesesGarantizados, tasaInvalidezDe(datos), datos.beneficiarios)))

POST_invalidez_rv_aumento(Datos) ==
  \E datos \in Datos, mesesAumento \in MesesAumentoPedidos,
     porcentajeAumento \in PorcentajesAumentoPedidos :
    Responder("invalidez_rv_aumento",
      datos @@ [mesesAumento |-> mesesAumento, porcentajeAumento |-> porcentajeAumento],
      <<"calcularRVAumentoTemporalInvalidez">>,
      Exito(calcularRVAumentoTemporalInvalidez(datos.fondos, datos.edad, datos.sexo,
              mesesAumento, porcentajeAumento, tasaInvalidezDe(datos), datos.beneficiarios)))

POST_invalidez_rv_ambas(Datos) ==
  \E datos \in Datos, mesesGarantizados \in MesesGarantizadosPedidos,
     mesesAumento \in MesesAumentoPedidos,
     porcentajeAumento \in PorcentajesAumentoPedidos :
    Responder("invalidez_rv_ambas",
      datos @@ [mesesGarantizados |-> mesesGarantizados, mesesAumento |-> mesesAumento,
                porcentajeAumento |-> porcentajeAumento],
      <<"calcularRVConAmbasClausulasInvalidez">>,
      Exito(calcularRVConAmbasClausulasInvalidez(datos.fondos, datos.edad, datos.sexo,
              mesesGarantizados, mesesAumento, porcentajeAumento, tasaInvalidezDe(datos),
              datos.beneficiarios)))

\* ---- survivorship: the requests are drawn from the set Datos ----

POST_sobrevivencia(Datos) ==
  \E datos \in Datos, cubiertoSIS \in CoberturasPedidas :
    Responder("sobrevivencia", datos @@ [cubiertoSIS |-> cubiertoSIS],
      <<"calcularPensionSobrevivencia">>,
      Exito(calcularPensionSobrevivencia(datos.fondos, datos.edad, datos.sexo,
              datos.beneficiarios, datos.pensionReferenciaCausante,
              datos.ingresoBaseCausante, tasaSobrevivenciaDe(datos),
              ValorO(cubiertoSIS, TRUE))))

\* the requests of sobrevivencia_opciones: datos.tasaInteres is not read
DatosOpciones == {datos \in DatosSobrevivencia : ~Definido(datos.tasaInteres)}

\* NextResponse.json({ success: true, resultados: opciones })
ExitoOpciones(opciones) == [success |-> TRUE, status |-> 200, resultados |-> opciones]

POST_sobrevivencia_opciones(Datos) ==
  \E datos \in Datos :
    Entrar(/\ Len(calcularPorcentajesBeneficiarios(datos.beneficiarios)) # 0
           /\ calcularCNUSobrevivencia(datos.beneficiarios, RETIRO_PROGRAMADO) > 0,
           "sobrevivencia_opciones", datos, <<"calcularOpcionesSobrevivencia">>,
           ExitoOpciones(calcularOpcionesSobrevivencia(datos.fondos, datos.edad, datos.sexo,
             datos.beneficiarios, datos.pensionReferenciaCausante,
             datos.ingresoBaseCausante, RETIRO_PROGRAMADO, SOBREVIVENCIA, <<>>)))

\* the loop "for (let año = 0; año <= 30; año++)" of calcularOpcionesSobrevivencia:
\* const cnuAnual = calcularCNUSobrevivencia(beneficiarios, tasaRP)
IterarOpcionesSobrevivencia(Datos) ==
  \E datos \in Datos :
    Iterar("sobrevivencia_opciones", datos,
           [a \in 0..30 |-> calcularCNUSobrevivencia(datos.beneficiarios, RETIRO_PROGRAMADO)],
           30, RETIRO_PROGRAMADO, FALSE,
           ExitoOpciones(calcularOpcionesSobrevivencia(datos.fondos, datos.edad, datos.sexo,
             datos.beneficiarios, datos.pensionReferenciaCausante,
             datos.ingresoBaseCausante, RETIRO_PROGRAMADO, SOBREVIVENCIA, <<>>)))

POST_sobrevivencia_rp(Datos) ==
  \E datos \in Datos :
    Entrar(/\ Len(calcularPorcentajesBeneficiarios(datos.beneficiarios)) # 0
           /\ calcularCNUSobrevivencia(datos.beneficiarios, tasaInteresDe(datos)) > 0,
           "sobrevivencia_rp", datos, <<"calcularRetiroProgramadoSobrevivencia">>,
           Exito(calcularRetiroProgramadoSobrevivencia(datos.fondos, datos.edad, datos.sexo,
             datos.beneficiarios, datos.pensionReferenciaCausante,
             datos.ingresoBaseCausante, tasaInteresDe(datos), <<>>)))

\* the loop "for (let año = 0; año <= 30; año++)" of
\* calcularRetiroProgramadoSobrevivencia:
\* const cnuAnual = calcularCNUSobrevivencia(beneficiarios, tasaInteres)
IterarRetiroProgramadoSobrevivencia(Datos) ==
  \E datos \in Datos :
    Iterar("sobrevivencia_rp", datos,
           [a \in 0..30 |-> calcularCNUSobrevivencia(datos.beneficiarios, tasaInteresDe(datos))],
           30, tasaInteresDe(datos), FALSE,
           Exito(calcularRetiroProgramadoSobrevivencia(datos.fondos, datos.edad, datos.sexo,
             datos.beneficiarios, datos.pensionReferenciaCausante,
             datos.ingresoBaseCausante, tasaInteresDe(datos), <<>>)))

POST_sobrevivencia_rv_inmediata(Datos) ==
  \E datos \in Datos :
    Responder("sobrevivencia_rv_inmediata", datos, <<"calcularRVInmediataSobrevivencia">>,
      Exito(calcularRVInmediataSobrevivencia(datos.fondos, datos.edad, datos.sexo,
              datos.beneficiarios, datos.pensionReferenciaCausante,
              datos.ingresoBaseCausante, tasaSobrevivenciaDe(datos))))

POST_sobrevivencia_rv_garantizado(Datos) ==
  \E datos \in Datos, mesesGarantizados \in MesesGarantizadosPedidos :
    Responder("sobrevivencia_rv_garantizado",
      datos @@ [mesesGarantizados |-> mesesGarantizados],
      <<"calcularRVGarantizadoSobrevivencia">>,
      Exito(calcularRVGarantizadoSobrevivencia(datos.fondos, datos.edad, datos.sexo,
              datos.beneficiarios, mesesGarantizados, datos.pensionReferenciaCausante,
              datos.ingresoBaseCausante, tasaSobrevivenciaDe(datos))))

POST_sobrevivencia_rv_aumento(Datos) ==
  \E datos \in Datos, mesesAumento \in MesesAumentoPedidos,
     porcentajeAumento \in PorcentajesAumentoPedidos :
    Responder("sobrevivencia_rv_aumento",
      datos @@ [mesesAumento |-> mesesAumento, porcentajeAumento |-> porcentajeAumento],
      <<"calcularRVAumentoSobrevivencia">>,
      Exito(calcularRVAumentoSobrevivencia(datos.fondos, datos.edad, datos.sexo,
              datos.beneficiarios, mesesAumento, porcentajeAumento,
              datos.pensionReferenciaCausante, datos.ingresoBaseCausante,
              tasaSobrevivenciaDe(datos))))

POST_sobrevivencia_rv_ambas(Datos) ==
  \E datos \in Datos, mesesGarantizados \in MesesGarantizadosPedidos,
     mesesAumento \in MesesAumentoPedidos,
     porcentajeAumento \in PorcentajesAumentoPedidos :
    Responder("sobrevivencia_rv_ambas",
      datos @@ [mesesGarantizados |-> mesesGarantizados, mesesAumento |-> mesesAumento,
                porcentajeAumento |-> porcentajeAumento],
      <<"calcularRVAmbasSobrevivencia">>,
      Exito(calcularRVAmbasSobrevivencia(datos.fondos, datos.edad, datos.sexo,
              datos.beneficiarios, mesesGarantizados, mesesAumento, porcentajeAumento,
              datos.pensionReferenciaCausante, datos.ingresoBaseCausante,
              tasaSobrevivenciaDe(datos))))

\* ---- rejections ----

TiposSoportados ==
  {"retiro_programado", "inmediata", "periodo_garantizado", "aumento_temporal", "ambas",
   "invalidez", "invalidez_rp", "invalidez_rv_inmediata", "invalidez_rv_garantizado",
   "invalidez_rv_aumento", "invalidez_rv_ambas", "sobrevivencia", "sobrevivencia_opciones",
   "sobrevivencia_rp", "sobrevivencia_rv_inmediata", "sobrevivencia_rv_garantizado",
   "sobrevivencia_rv_aumento", "sobrevivencia_rv_ambas"}

\* tags that are no case of the switch
TiposDesconocidos == {"vejez", "renta_vitalicia", ""}

\* default: an unsupported tipo is answered with status 400
POST_default(Datos) ==
  \E tipo \in TiposDesconocidos, datos \in Datos :
    Responder(tipo, datos, <<>>,
      [success |-> FALSE, status |-> 400, error |-> "Tipo de calculo no valido"])

\* catch: a body without datos raises at datos.sexo and is answered with status 500
POST_catch ==
  \E tipo \in TiposSoportados \cup TiposDesconocidos :
    /\ pc = "espera"
    /\ lote.fase = "reposo"
    /\ pc' = "fin"
    /\ peticion' = [tipo |-> tipo, datos |-> <<>>]
    /\ evaluadas' = <<>>
    /\ respuesta' = [success |-> FALSE, status |-> 500,
                     error |-> "Error al procesar el calculo"]
    /\ UNCHANGED <<anio, saldo, retiroAcumulado, proyeccion, anterior, lote, uf>>

\* the response is sent; the endpoint waits for the next request
Siguiente ==
  /\ pc = "fin"
  /\ pc' = "espera"
  /\ peticion' = SinPeticion
  /\ respuesta' = Espera
  /\ evaluadas' = <<>>
  /\ saldo' = <<0, 0>>
  /\ UNCHANGED <<anio, retiroAcumulado, proyeccion, anterior, lote, uf>>

Next ==
  \/ POST_retiro_programado(DatosVejez)
  \/ IterarRetiroProgramado(DatosVejez)
  \/ POST_inmediata(DatosVejez)
  \/ POST_periodo_garantizado(DatosVejez)
  \/ POST_aumento_temporal(DatosVejez)
  \/ POST_ambas(DatosVejez)
  \/ POST_invalidez(DatosInvalidez)
  \/ POST_invalidez_rp(DatosInvalidez)
  \/ IterarRetiroProgramadoInvalidez(DatosInvalidez)
  \/ POST_invalidez_rv_inmediata(DatosInvalidez)
  \/ POST_invalidez_rv_garantizado(DatosInvalidez)
  \/ POST_invalidez_rv_aumento(DatosInvalidez)
  \/ POST_invalidez_rv_ambas(DatosInvalidez)
  \/ POST_sobrevivencia(DatosSobrevivencia)
  \/ POST_sobrevivencia_opciones(DatosOpciones)
  \/ IterarOpcionesSobrevivencia(DatosOpciones)
  \/ POST_sobrevivencia_rp(DatosSobrevivencia)
  \/ IterarRetiroProgramadoSobrevivencia(DatosSobrevivencia)
  \/ POST_sobrevivencia_rv_inmediata(DatosSobrevivencia)
  \/ POST_sobrevivencia_rv_garantizado(DatosSobrevivencia)
  \/ POST_sobrevivencia_rv_aumento(DatosSobrevivencia)
  \/ POST_sobrevivencia_rv_ambas(DatosSobrevivencia)
  \/ POST_default(DatosVejez)
  \/ POST_catch
  \/ Siguiente

Spec == Init /\ [][Next]_vars

\* ------------------------------------------------------------------------
\* Properties of the endpoint
\* ------------------------------------------------------------------------

\* the result records of the response: one, several (sobrevivencia_opciones)
\* or none (a rejection)
Resultados ==
  IF "resultado" \in DOMAIN respuesta THEN <<respuesta.resultado>>
  ELSE IF "resultados" \in DOMAIN respuesta THEN respuesta.resultados
  ELSE <<>>

TiposSobrevivencia ==
  {"sobrevivencia", "sobrevivencia_opciones", "sobrevivencia_rp",
   "sobrevivencia_rv_inmediata", "sobrevivencia_rv_garantizado",
   "sobrevivencia_rv_aumento", "sobrevivencia_rv_ambas"}

\* the request answered has a body with datos
Respondida == pc = "fin" /\ Len(peticion.datos) = 1

\* a result flagged as an error: every monetary field and the CNU are 0
EsResultadoCero(r) ==
  r.pensionMensual = 0 /\ r.pensionEnUF = 0 /\ r.pensionAnual = 0 /\ r.cnu = 0

Avisos(r) == IF "advertencias" \in DOMAIN r THEN r.advertencias ELSE <<>>

Contiene(avisos, aviso) == \E i \in 1..Len(avisos) : avisos[i] = aviso

\* C1: every survivorship entry point answers a beneficiary list with no
\* eligible beneficiary, without raising, with a result flagged as an error:
\* pensionMensual, pensionEnUF, pensionAnual and cnu are 0 and advertencias
\* says that beneficiaries are missing.
C1_SinBeneficiariosEsError ==
  (/\ Respondida
   /\ peticion.tipo \in TiposSobrevivencia
   /\ Len(calcularPorcentajesBeneficiarios(peticion.datos[1].beneficiarios)) = 0)
  => /\ respuesta.success
     /\ Len(Resultados) >= 1
     /\ \A i \in 1..Len(Resultados) :
          /\ EsResultadoCero(Resultados[i])
          /\ Contiene(Avisos(Resultados[i]), SinBeneficiarios)

\* C2: a request with an unsupported tipo or a negative balance is rejected
\* (success = false, no result) and no engine formula is evaluated for it; a
\* request answered with success = true has a supported tipo and fondos >= 0.
C2_EntradaInvalidaRechazada ==
  Respondida =>
    /\ (peticion.tipo \notin TiposSoportados \/ peticion.datos[1].fondos < 0)
         => (~respuesta.success /\ Len(Resultados) = 0 /\ evaluadas = <<>>)
    /\ respuesta.success
         => (peticion.tipo \in TiposSoportados /\ peticion.datos[1].fondos >= 0)

\* C3: a formula whose computed CNU is <= 0 returns a flagged zero-value
\* result (monetary fields 0 and an advisory), never a result whose monetary
\* fields come from dividing by that CNU.
C3_CNUNoPositivoEsError ==
  (Respondida /\ respuesta.success /\ peticion.datos[1].fondos >= 0) =>
    \A i \in 1..Len(Resultados) :
      MenorIgual(Resultados[i].cnu, 0)
        => /\ Resultados[i].pensionMensual = 0
           /\ Resultados[i].pensionEnUF = 0
           /\ Resultados[i].pensionAnual = 0
           /\ Len(Avisos(Resultados[i])) > 0

\* the arguments the endpoint passes to calcularPensionInvalidez
GradoPedido == ValorO(peticion.datos[1].gradoInvalidez, "total")

IngresoBasePedido ==
  IF Definido(peticion.datos[1].ingresoBase) /\ peticion.datos[1].ingresoBase[1] # 0
  THEN peticion.datos[1].ingresoBase[1] ELSE 800000

\* C6: calcularPensionInvalidez with cubiertoSIS = true takes as reference
\* amount ingresoBase x 0.70 (total), x 0.50 (total_2_3) or x 0.35 (parcial),
\* and whenever fondos / CNU is below the reference amount the pensionMensual
\* returned is the reference amount rounded to the peso; the CNU is the one
\* of the mortality table of the disabled.
C6_InvalidezCubierta ==
  (/\ Respondida /\ peticion.tipo = "invalidez"
   /\ ValorO(peticion.datos[1].cubiertoSIS, TRUE))
  => LET r == respuesta.resultado
         datos == peticion.datos[1]
         fraccion == CASE GradoPedido = "total" -> 70
                       [] GradoPedido = "total_2_3" -> 50
                       [] GradoPedido = "parcial" -> 35
         referencia == (IngresoBasePedido * fraccion) \div 10
     IN  /\ r.pensionReferencia = referencia
         /\ r.cnu = calcularCNU(datos.edad, datos.sexo, tasaInvalidezDe(datos),
                                datos.beneficiarios, TRUE)
         /\ Menor(Dividir(Pesos(datos.fondos), r.cnu), referencia)
              => r.pensionMensual = Redondear(referencia)

\* the balance of 50,000,000 of a person of 30 does not fund 70% of 800,000
C6_Testigo ==
  /\ Respondida /\ peticion.tipo = "invalidez"
  /\ ValorO(peticion.datos[1].cubiertoSIS, TRUE)
  /\ peticion.datos[1].fondos = 50000000
  /\ GradoPedido = "total" /\ IngresoBasePedido = 800000
  /\ Menor(0, respuesta.resultado.cnu)
  /\ Menor(Dividir(Pesos(50000000), respuesta.resultado.cnu), Pesos(560000))
  /\ respuesta.resultado.pensionMensual = 560000

\* the interest rate the formula of the request was handed (the scheduled
\* withdrawal's, for the two options of sobrevivencia_opciones)
TasaDeLaPeticion == Resultados[1].tasaInteres

\* fondos / CNU of the deceased's own age and sex
PensionAutofinanciada ==
  Dividir(Pesos(peticion.datos[1].fondos),
          calcularCNU(peticion.datos[1].edad, peticion.datos[1].sexo, TasaDeLaPeticion,
                      <<>>, FALSE))

\* the reference pension by the priority order, the income base being read
\* only when conIngreso holds
ReferenciaPorPrioridad(conIngreso) ==
  LET datos == peticion.datos[1]
  IN  IF Definido(datos.pensionReferenciaCausante) /\ datos.pensionReferenciaCausante[1] > 0
      THEN datos.pensionReferenciaCausante[1] * 10
      ELSE IF /\ conIngreso
              /\ Definido(datos.ingresoBaseCausante) /\ datos.ingresoBaseCausante[1] > 0
      THEN datos.ingresoBaseCausante[1] * 7
      ELSE PensionAutofinanciada

ConReferencia(r) == "pensionReferencia" \in DOMAIN r

\* C8 (as stated): every survivorship formula resolves the reference pension
\* in this order and from nothing else: the explicit pensionReferenciaCausante
\* when it is > 0, else ingresoBaseCausante x 0.70 when the income base is
\* > 0, else fondos / CNU of the deceased's own age and sex.
C8_PrioridadSinCobertura ==
  (Respondida /\ respuesta.success /\ peticion.tipo \in TiposSobrevivencia) =>
    \A k \in 1..Len(Resultados) :
      ConReferencia(Resultados[k])
        => Resultados[k].pensionReferencia = ReferenciaPorPrioridad(TRUE)

\* C8 (amended): the same order, except that calcularPensionSobrevivencia
\* reads the income base only when cubiertoSIS is true (its default): without
\* coverage it goes from the explicit value straight to fondos / CNU.
C8_PrioridadConCobertura ==
  (Respondida /\ respuesta.success /\ peticion.tipo \in TiposSobrevivencia) =>
    \A k \in 1..Len(Resultados) :
      ConReferencia(Resultados[k])
        => Resultados[k].pensionReferencia
             = ReferenciaPorPrioridad(
                 peticion.tipo = "sobrevivencia"
                   => ValorO(peticion.datos[1].cubiertoSIS, TRUE))

\* an income base without coverage: the reference is fondos / CNU
C8_Testigo ==
  /\ Respondida /\ peticion.tipo = "sobrevivencia"
  /\ ~ValorO(peticion.datos[1].cubiertoSIS, TRUE)
  /\ ~Definido(peticion.datos[1].pensionReferenciaCausante)
  /\ Definido(peticion.datos[1].ingresoBaseCausante)
  /\ peticion.datos[1].fondos > 0 /\ peticion.datos[1].edad = 50
  /\ respuesta.resultado.pensionReferencia = PensionAutofinanciada
  /\ respuesta.resultado.pensionReferencia # Pesos(700000)

\* C9: calcularRetiroProgramado, for every balance >= 0, age of the table, sex
\* and interest rate > 0, returns as pensionMensual the balance divided by the
\* CNU of the call, rounded to the peso, and a projection that is not empty
\* and whose first point has the input balance as saldoAcumulado.
C9_RetiroProgramado ==
  (/\ Respondida /\ peticion.tipo = "retiro_programado"
   /\ peticion.datos[1].fondos >= 0 /\ peticion.datos[1].edad \in 0..110)
  => LET r == respuesta.resultado
         datos == peticion.datos[1]
     IN  /\ respuesta.success
         /\ r.cnu = calcularCNU(datos.edad, datos.sexo, tasaInteresDe(datos),
                                datos.beneficiarios, FALSE)
         /\ r.cnu > 0
         /\ r.pensionMensual = MulDiv(datos.fondos, P6, r.cnu)
         /\ Len(r.proyeccion) >= 1
         /\ r.proyeccion[1].saldoAcumulado = datos.fondos

\* the scenario of the claim: 50,000,000 at 65, a man, the default rate
C9_Testigo ==
  /\ Respondida /\ peticion.tipo = "retiro_programado"
  /\ peticion.datos[1].fondos = 50000000 /\ peticion.datos[1].edad = 65
  /\ peticion.datos[1].sexo = "M" /\ peticion.datos[1].beneficiarios = <<>>
  /\ tasaInteresDe(peticion.datos[1]) = 34100
  /\ respuesta.resultado.pensionMensual > 0
  /\ Len(respuesta.resultado.proyeccion) > 1
  /\ respuesta.resultado.proyeccion[1].saldoAcumulado = 50000000

\* a scheduled-withdrawal request, of a positive balance and of persons whose
\* ages are in the tables, has been answered with its projection
TiposRetiroProgramado ==
  {"retiro_programado", "invalidez_rp", "sobrevivencia_rp", "sobrevivencia_opciones"}

EdadFinal == IF peticion.tipo = "invalidez_rp" THEN 81 ELSE 110

ProyeccionRespondida ==
  /\ Respondida /\ respuesta.success
  /\ peticion.tipo \in TiposRetiroProgramado
  /\ peticion.datos[1].fondos > 0
  /\ peticion.datos[1].edad \in 0..EdadFinal
  /\ \A i \in 1..Len(peticion.datos[1].beneficiarios) :
       peticion.datos[1].beneficiarios[i].edad \in 0..110
  /\ "proyeccion" \in DOMAIN Resultados[1]

Puntos == Resultados[1].proyeccion

\* C10 (as stated): every scheduled-withdrawal projection started with a
\* positive balance and a positive interest rate at an age of the table ends
\* because its balance reached zero, and not at the cap of years, and the
\* amount withdrawn in every simulated year is non-negative.
C10_SaldoAgotado ==
  ProyeccionRespondida =>
    /\ Len(Puntos) >= 1
    /\ saldo = <<0, 0>>
    /\ \A i \in 1..Len(Puntos) : Puntos[i].pensionMensual >= 0

\* C10 (amended): the amount withdrawn and the balance are non-negative in
\* every simulated year, and the balance reaches zero exactly in a year whose
\* CNU is at most 12: for the titular's own projection that is the last age
\* of the mortality table (110, or 81 for the disabled), which the 45 years of
\* the loop reach only from the starting ages 65 (36) on; from a younger age,
\* and in the 30 years of a survivorship projection whose CNU exceeds 12, the
\* loop ends at its cap with a positive balance.
C10_SaldoAgotadoEnEdadFinal ==
  ProyeccionRespondida =>
    /\ \A i \in 1..Len(Puntos) :
         Puntos[i].pensionMensual >= 0 /\ Puntos[i].saldoAcumulado >= 0
    /\ peticion.tipo \in {"retiro_programado", "invalidez_rp"} =>
         /\ Len(Puntos) = Min(45, EdadFinal - peticion.datos[1].edad) + 1
         /\ saldo = <<0, 0>> <=> Puntos[Len(Puntos)].edad = EdadFinal
    /\ peticion.tipo \in {"sobrevivencia_rp", "sobrevivencia_opciones"} =>
         IF Resultados[1].cnu > 12 * P6
         THEN Len(Puntos) = 31 /\ saldo[1] > 0
         ELSE Len(Puntos) = 1 /\ saldo = <<0, 0>>

\* from the age of 60 the 45 years end at 105 with a positive balance
C10_Testigo ==
  /\ ProyeccionRespondida /\ peticion.tipo = "retiro_programado"
  /\ peticion.datos[1].edad = 60
  /\ Len(Puntos) = 46
  /\ Puntos[46].edad = 105
  /\ saldo[1] > 0

\* the immediate annuity of the inputs of the request answered
InmediataDeLaPeticion ==
  LET datos == peticion.datos[1]
  IN  CASE peticion.tipo \in {"aumento_temporal", "ambas"} ->
             calcularRVInmediata(datos.fondos, datos.edad, datos.sexo, tasaRVDe(datos),
                                 datos.beneficiarios)
        [] peticion.tipo \in {"invalidez_rv_aumento", "invalidez_rv_ambas"} ->
             calcularRVInmediataInvalidez(datos.fondos, datos.edad, datos.sexo,
                                          tasaInvalidezDe(datos), datos.beneficiarios)
        [] OTHER ->
             calcularRVInmediataSobrevivencia(datos.fondos, datos.edad, datos.sexo,
               datos.beneficiarios, datos.pensionReferenciaCausante,
               datos.ingresoBaseCausante, tasaSobrevivenciaDe(datos))

\* a request with a temporary increase, of a balance >= 0, has been answered
\* with a result that carries the increase, and the immediate annuity of its
\* inputs is a number
AumentoRespondido(tipos) ==
  /\ Respondida /\ respuesta.success
  /\ peticion.tipo \in tipos
  /\ peticion.datos[1].fondos >= 0
  /\ "aumentoTemporal" \in DOMAIN respuesta.resultado
  /\ EsFinito(InmediataDeLaPeticion.pensionMensual)

\* the cost of the increase of the request on the increment incrementoMensual
CostoDelAumento(incrementoMensual) ==
  costoAumentoDe(1, peticion.datos[1].mesesAumento, incrementoMensual, TasaDeLaPeticion)

\* cost / (0.97 x balance)
CostoRelativo(costo) == Dividir(costo, Escalar(Pesos(peticion.datos[1].fondos), 970000))

\* C12: in every temporary-increase result (old age, disability and
\* survivorship), for any balance >= 0, the reduction factor applied to the
\* immediate annuity of the same inputs is max(1 - cost / (0.97 x balance), 0.5),
\* so aumentoTemporal.pensionFinal is a number that is never below half of
\* that annuity.
C12_PisoDelAumento ==
  AumentoRespondido({"aumento_temporal", "invalidez_rv_aumento", "sobrevivencia_rv_aumento"}) =>
    LET base == Pesos(InmediataDeLaPeticion.pensionMensual)
        incremento ==
          Escalar(base, porcentajeNormalizadoDe(peticion.datos[1].porcentajeAumento))
        factor == MathMax(Restar(P6, CostoRelativo(CostoDelAumento(incremento))), 500000)
        pensionFinal == respuesta.resultado.aumentoTemporal.pensionFinal
    IN  /\ pensionFinal = Redondear(Escalar(base, factor))
        /\ EsFinito(pensionFinal)
        /\ 2 * pensionFinal >= InmediataDeLaPeticion.pensionMensual

\* C13: in every combined-clause result (guaranteed period and temporary
\* increase) the factor of the guaranteed period is applied first, the cost
\* of the increase is that of the increment of the reduced base (immediate
\* annuity x guaranteed factor x increase fraction), and the factor applied to
\* the immediate annuity is max(guaranteed factor - cost / (0.97 x balance),
\* 0.45), so aumentoTemporal.pensionFinal is a number never below 45% of the
\* immediate annuity of the same inputs.
C13_PisoDeAmbas ==
  AumentoRespondido({"ambas", "invalidez_rv_ambas", "sobrevivencia_rv_ambas"}) =>
    LET base == Pesos(InmediataDeLaPeticion.pensionMensual)
        factorGarantizado == calcularFactorGarantizado(peticion.datos[1].mesesGarantizados)
        incremento ==
          Escalar(Escalar(base, factorGarantizado),
                  porcentajeNormalizadoDe(peticion.datos[1].porcentajeAumento))
        factor ==
          MathMax(Restar(factorGarantizado, CostoRelativo(CostoDelAumento(incremento))),
                  450000)
        pensionFinal == respuesta.resultado.aumentoTemporal.pensionFinal
    IN  /\ pensionFinal = Redondear(Escalar(base, factor))
        /\ EsFinito(pensionFinal)
        /\ pensionFinal >= Redondear(Escalar(base, 450000))

\* ---- the premium of the immediate annuity ----

TiposInmediata == {"inmediata", "invalidez_rv_inmediata", "sobrevivencia_rv_inmediata"}

\* an immediate annuity has been calculated: the answer is not the flagged
\* result of a survivorship case without eligible beneficiaries
InmediataRespondida ==
  /\ Respondida /\ respuesta.success
  /\ peticion.tipo \in TiposInmediata
  /\ respuesta.resultado.nombre # "Error: Sin Beneficiarios"

\* the scheduled withdrawal of the inputs and the rate of the request answered
RetiroDeLaPeticion ==
  LET datos == peticion.datos[1]
  IN  CASE peticion.tipo = "inmediata" ->
             calcularRetiroProgramado(datos.fondos, datos.edad, datos.sexo, tasaRVDe(datos),
                                      datos.beneficiarios, <<>>)
        [] peticion.tipo = "invalidez_rv_inmediata" ->
             calcularRetiroProgramadoInvalidez(datos.fondos, datos.edad, datos.sexo,
               tasaInvalidezDe(datos), datos.beneficiarios, <<>>)
        [] OTHER ->
             calcularRetiroProgramadoSobrevivencia(datos.fondos, datos.edad, datos.sexo,
               datos.beneficiarios, datos.pensionReferenciaCausante,
               datos.ingresoBaseCausante, tasaSobrevivenciaDe(datos), <<>>)

\* a > b of two numbers: false when either is NaN
Excede(a, b) == a # NaN /\ b # NaN /\ a > b

\* the monthly benefit is round(0.97 x fondos / CNU), for the CNU of the answer
C20_PrimaDescontada ==
  InmediataRespondida =>
    respuesta.resultado.pensionMensual
      = Redondear(Dividir(Escalar(Pesos(peticion.datos[1].fondos), 970000),
                          respuesta.resultado.cnu))

\* C20: the immediate annuity deducts a premium of 3% from the balance before
\* dividing, pensionMensual = round(0.97 x fondos / CNU), so for the same
\* inputs and rate it never exceeds the scheduled withdrawal round(fondos / CNU)
C20_InmediataNoExcede ==
  InmediataRespondida =>
    /\ respuesta.resultado.pensionMensual
         = Redondear(Dividir(Escalar(Pesos(peticion.datos[1].fondos), 970000),
                             respuesta.resultado.cnu))
    /\ RetiroDeLaPeticion.cnu = respuesta.resultado.cnu
    /\ RetiroDeLaPeticion.pensionMensual
         = Redondear(Dividir(Pesos(peticion.datos[1].fondos), respuesta.resultado.cnu))
    /\ ~Excede(respuesta.resultado.pensionMensual, RetiroDeLaPeticion.pensionMensual)

\* ------------------------------------------------------------------------
\* The engine called directly: one call of one formula at a time
\* ------------------------------------------------------------------------

\* the largest beneficiary list of a direct call
MaxBeneficiarios == 4

\* every age of the tables, and one age beyond them on either side
EdadesMotor == (0 - 1)..111

\* the months of a guaranteed period: two years before the first breakpoint
\* to one year after the last
MesesMotor == (0 - 24)..372

\* the lists of a direct call, and the lists of a request: one person fewer
ListasMotor == ListasHasta(Perfiles, MaxBeneficiarios)

ListasFamilias == ListasHasta(Perfiles, MaxBeneficiarios - 1)

\* the survivorship requests of every beneficiary list, the reference pension
\* taken from the income base of the deceased
DatosFamilias ==
  [fondos : {50000000}, edad : {50}, sexo : {"M"}, tasaInteres : {<<>>},
   beneficiarios : ListasFamilias, pensionReferenciaCausante : {<<>>},
   ingresoBaseCausante : {<<1000000>>}]

\* the call funcion(argumentos) returns valor
Llamar(funcion, argumentos, valor) ==
  Responder(funcion, argumentos, <<funcion>>, [success |-> TRUE, valor |-> valor])

\* ages on both sides of every table
EdadesQx == (0 - 3)..113

Motor_getQx ==
  \E edad \in EdadesQx, sexo \in Sexos, esInvalido \in BOOLEAN :
    Llamar("getQx", [edad |-> edad, sexo |-> sexo, esInvalido |-> esInvalido],
           getQx(edad, sexo, esInvalido))

Motor_calcularLx ==
  \E edad \in EdadesMotor, sexo \in Sexos, esInvalido \in BOOLEAN :
    Llamar("calcularLx", [edad |-> edad, sexo |-> sexo, esInvalido |-> esInvalido],
           calcularLx(edad, sexo, esInvalido))

Motor_calcularExpectativaVida ==
  \E edad \in EdadesMotor, sexo \in Sexos, esInvalido \in BOOLEAN :
    Llamar("calcularExpectativaVida",
           [edad |-> edad, sexo |-> sexo, esInvalido |-> esInvalido],
           calcularExpectativaVida(edad, sexo, esInvalido))

Motor_calcularCNU ==
  \E edad \in EdadesMotor, sexo \in Sexos, tasaInteres \in Tasas, esInvalido \in BOOLEAN :
    Llamar("calcularCNU",
           [edad |-> edad, sexo |-> sexo, tasaInteres |-> tasaInteres,
            esInvalido |-> esInvalido],
           calcularCNU(edad, sexo, tasaInteres, <<>>, esInvalido))

\* a spouse whose share is 0
SinCuota == [Conyuge EXCEPT !.porcentajePension = 0]

\* the beneficiary lists of a direct call of calcularCNU
ListasCargas == ListasHasta({Conyuge, Hijo, Padre, Madre, SinCuota}, 2)

\* ages of both tables of titulars
EdadesTitular == {60, 81}

Motor_calcularCNU_beneficiarios ==
  \E edad \in EdadesTitular, sexo \in Sexos, esInvalido \in BOOLEAN,
     beneficiarios \in ListasCargas :
    Llamar("calcularCNU con beneficiarios",
           [edad |-> edad, sexo |-> sexo, tasaInteres |-> RETIRO_PROGRAMADO,
            esInvalido |-> esInvalido, beneficiarios |-> beneficiarios],
           calcularCNU(edad, sexo, RETIRO_PROGRAMADO, beneficiarios, esInvalido))

Motor_calcularCNUIndividual ==
  \E edad \in EdadesMotor, sexo \in Sexos, tasaInteres \in Tasas :
    Llamar("calcularCNUIndividual",
           [edad |-> edad, sexo |-> sexo, tasaInteres |-> tasaInteres],
           calcularCNUIndividual(edad, sexo, tasaInteres))

Motor_calcularFactorGarantizado ==
  \E meses \in MesesMotor :
    Llamar("calcularFactorGarantizado", [meses |-> meses],
           calcularFactorGarantizado(meses))

Motor_calcularPorcentajesBeneficiarios ==
  \E beneficiarios \in ListasMotor :
    Llamar("calcularPorcentajesBeneficiarios", [beneficiarios |-> beneficiarios],
           calcularPorcentajesBeneficiarios(beneficiarios))

\* detallePorBeneficiario of calcularCNUSobrevivencia
DetalleCNU(porcentajes, tasaInteres) ==
  [i \in 1..Len(porcentajes) |->
     [tipo |-> porcentajes[i].tipo,
      cnu |-> calcularCNUIndividual(porcentajes[i].edad, porcentajes[i].sexo, tasaInteres),
      porcentaje |-> porcentajes[i].porcentaje]]

Motor_calcularCNUSobrevivencia ==
  \E beneficiarios \in ListasMotor, tasaInteres \in Tasas :
    Llamar("calcularCNUSobrevivencia",
           [beneficiarios |-> beneficiarios, tasaInteres |-> tasaInteres],
           [cnuTotal |-> calcularCNUSobrevivencia(beneficiarios, tasaInteres),
            detallePorBeneficiario |->
              DetalleCNU(calcularPorcentajesBeneficiarios(beneficiarios), tasaInteres)])

\* porcentajes.reduce((sum, b) => sum + b.porcentaje, 0) of the survivorship
\* formulas, for the shares of a beneficiary list
Motor_porcentajeTotal ==
  \E beneficiarios \in ListasMotor :
    Llamar("porcentajeTotal", [beneficiarios |-> beneficiarios],
           porcentajeTotalDoble(calcularPorcentajesBeneficiarios(beneficiarios)))

\* the increases of a direct call: 0.01, 0.02, 0.1, 0.5, and 1, 2, 10, 50, 100
PorcentajesMotor ==
  {10000, 20000, 100000, 500000, 1000000, 2000000, 10000000, 50000000, 100000000}

Motor_calcularRVAumentoTemporal ==
  \E fondos \in {20000000, 50000000}, edad \in {60, 65}, sexo \in Sexos,
     mesesAumento \in {18, 36}, porcentajeAumento \in PorcentajesMotor :
    Llamar("calcularRVAumentoTemporal",
           [fondos |-> fondos, edad |-> edad, sexo |-> sexo, mesesAumento |-> mesesAumento,
            porcentajeAumento |-> porcentajeAumento, mesesGarantizados |-> 0],
           calcularRVAumentoTemporal(fondos, edad, sexo, mesesAumento, porcentajeAumento,
                                     RENTA_VITALICIA_VEJEZ, <<>>))

Motor_calcularRVConAmbasClausulas ==
  \E fondos \in {20000000, 50000000}, edad \in {60, 65}, sexo \in Sexos,
     mesesAumento \in {18, 36}, porcentajeAumento \in PorcentajesMotor :
    Llamar("calcularRVConAmbasClausulas",
           [fondos |-> fondos, edad |-> edad, sexo |-> sexo, mesesAumento |-> mesesAumento,
            porcentajeAumento |-> porcentajeAumento, mesesGarantizados |-> 120],
           calcularRVConAmbasClausulas(fondos, edad, sexo, 120, mesesAumento,
                                       porcentajeAumento, RENTA_VITALICIA_VEJEZ, <<>>))

NextMotor ==
  \/ Motor_calcularCNU_beneficiarios
  \/ Motor_getQx
  \/ Motor_calcularLx
  \/ Motor_calcularExpectativaVida
  \/ Motor_calcularCNU
  \/ Motor_calcularCNUIndividual
  \/ Motor_calcularFactorGarantizado
  \/ Motor_calcularPorcentajesBeneficiarios
  \/ Motor_calcularCNUSobrevivencia
  \/ Motor_porcentajeTotal
  \/ Motor_calcularRVAumentoTemporal
  \/ Motor_calcularRVConAmbasClausulas
  \/ Siguiente

SpecMotor == Init /\ [][NextMotor]_vars

\* the survivorship requests of the endpoint, for every beneficiary list
NextFamilias ==
  \/ POST_sobrevivencia(DatosFamilias)
  \/ POST_sobrevivencia_opciones(DatosFamilias)
  \/ IterarOpcionesSobrevivencia(DatosFamilias)
  \/ POST_sobrevivencia_rp(DatosFamilias)
  \/ IterarRetiroProgramadoSobrevivencia(DatosFamilias)
  \/ POST_sobrevivencia_rv_inmediata(DatosFamilias)
  \/ POST_sobrevivencia_rv_garantizado(DatosFamilias)
  \/ POST_sobrevivencia_rv_aumento(DatosFamilias)
  \/ POST_sobrevivencia_rv_ambas(DatosFamilias)
  \/ Siguiente

SpecFamilias == Init /\ [][NextFamilias]_vars

\* ---- the same request sent again after other requests ----

DatosRepetidosVejez ==
  [fondos : {50000000}, edad : {65, 110}, sexo : {"M"}, tasaInteres : {<<>>},
   beneficiarios : Cargas]

DatosRepetidosSobrevivencia ==
  [fondos : {50000000}, edad : {50}, sexo : {"M"}, tasaInteres : {<<>>},
   beneficiarios : {<<Conyuge>>, <<Conyuge, Hijo>>},
   pensionReferenciaCausante : {<<>>}, ingresoBaseCausante : {<<1000000>>}]

\* the response is sent and the request is kept, with its response, as the
\* earlier call against which later calls are compared
SiguienteRecordando ==
  /\ pc = "fin"
  /\ pc' = "espera"
  /\ anterior' = <<[peticion |-> peticion, respuesta |-> respuesta]>>
  /\ peticion' = SinPeticion
  /\ respuesta' = Espera
  /\ evaluadas' = <<>>
  /\ saldo' = <<0, 0>>
  /\ UNCHANGED <<anio, retiroAcumulado, proyeccion, lote, uf>>

NextRepeticion ==
  \/ POST_retiro_programado(DatosRepetidosVejez)
  \/ IterarRetiroProgramado(DatosRepetidosVejez)
  \/ POST_sobrevivencia(DatosRepetidosSobrevivencia)
  \/ POST_sobrevivencia_opciones(DatosRepetidosSobrevivencia)
  \/ IterarOpcionesSobrevivencia(DatosRepetidosSobrevivencia)
  \/ Siguiente
  \/ SiguienteRecordando

SpecRepeticion == Init /\ [][NextRepeticion]_vars

\* ---- the scheduled withdrawals, those of a large family among them ----

\* a widow, a partner and four children
FamiliaNumerosa == <<Conyuge, Conviviente, Hijo, Hijo, Hijo, Hijo>>

DatosNumerosos ==
  [fondos : FondosCausante, edad : EdadesCausante, sexo : {"M"}, tasaInteres : TasasPedidas,
   beneficiarios : {<<Conyuge, Hijo>>, FamiliaNumerosa},
   pensionReferenciaCausante : {<<>>}, ingresoBaseCausante : {<<1000000>>}]

NextRetiros ==
  \/ POST_retiro_programado(DatosVejez)
  \/ IterarRetiroProgramado(DatosVejez)
  \/ POST_invalidez_rp(DatosInvalidez)
  \/ IterarRetiroProgramadoInvalidez(DatosInvalidez)
  \/ POST_sobrevivencia_rp(DatosNumerosos)
  \/ IterarRetiroProgramadoSobrevivencia(DatosNumerosos)
  \/ POST_sobrevivencia_opciones(DatosNumerosos)
  \/ IterarOpcionesSobrevivencia(DatosNumerosos)
  \/ Siguiente

SpecRetiros == Init /\ [][NextRetiros]_vars

\* ---- requests that carry the value of the UF, as the page sends them ----

\* datos.uf: getUFActiva() of the page, in pesos
ValoresUF == {35000, 38500, 39600}

\* datos: { fondos, edad, sexo, beneficiarios, tasaInteres, uf: getUFActiva() }
DatosConUF ==
  [fondos : {20000000, 50000000}, edad : {60, 65}, sexo : Sexos, tasaInteres : {<<>>},
   beneficiarios : Cargas, uf : ValoresUF]

NextUF ==
  \/ POST_retiro_programado(DatosConUF)
  \/ IterarRetiroProgramado(DatosConUF)
  \/ POST_inmediata(DatosConUF)
  \/ Siguiente

SpecUF == Init /\ [][NextUF]_vars

\* ---- the page: calcular evaluates the scenarios of the form as one batch ----

\* the largest list of annuity scenarios of a form
MaxEscenarios == 2

\* escenario.tipo: the four tags of EscenarioRV, and a tag outside them, which
\* the switches of calcular provide for (default: continue) and the endpoint
\* answers with status 400
TiposEscenario ==
  {"inmediata", "periodo_garantizado", "aumento_temporal", "ambas", "renta_vitalicia"}

BeneficiariosLote == {<<>>, <<Conyuge>>, <<Madre>>, <<Conyuge, Conviviente>>}

\* formData: the fields of the form that decide the batch
Formularios ==
  [tipoPension : {"vejez", "invalidez", "sobrevivencia"}, calcularRP : BOOLEAN,
   escenariosRV : ListasHasta(TiposEscenario, MaxEscenarios),
   beneficiarios : BeneficiariosLote]

\* the bodies the page can send: getTasasActivas gives tasaRP or tasaRV, and
\* two requests carry no rate
DatosLoteVejez ==
  [fondos : {50000000}, edad : {65}, sexo : {"M"},
   tasaInteres : {<<RETIRO_PROGRAMADO>>, <<RENTA_VITALICIA_VEJEZ>>},
   beneficiarios : BeneficiariosLote]

DatosLoteInvalidez ==
  [fondos : {50000000}, edad : {50}, sexo : {"M"},
   tasaInteres : {<<>>, <<RETIRO_PROGRAMADO>>, <<RENTA_VITALICIA_VEJEZ>>},
   beneficiarios : BeneficiariosLote]

DatosLoteSobrevivencia ==
  [fondos : {50000000}, edad : {65}, sexo : {"M"},
   tasaInteres : {<<>>, <<RETIRO_PROGRAMADO>>, <<RENTA_VITALICIA_VEJEZ>>},
   beneficiarios : BeneficiariosLote,
   pensionReferenciaCausante : {<<>>}, ingresoBaseCausante : {<<1000000>>}]

\* validarBeneficiarios: formData.beneficiarios.reduce((sum, b) => sum + b.porcentajePension, 0)
RECURSIVE totalPorcentaje(_)
totalPorcentaje(beneficiarios) ==
  IF beneficiarios = <<>> THEN 0
  ELSE Head(beneficiarios).porcentajePension + totalPorcentaje(Tail(beneficiarios))

\* the tipo sent for a scenario of the list, <<>> when the loop skips it (continue)
tipoAPI(tipoPension, tipo) ==
  IF tipoPension = "vejez" THEN <<tipo>>
  ELSE IF tipoPension = "invalidez"
  THEN CASE tipo = "inmediata" -> <<"invalidez_rv_inmediata">>
         [] tipo = "periodo_garantizado" -> <<"invalidez_rv_garantizado">>
         [] tipo = "aumento_temporal" -> <<"invalidez_rv_aumento">>
         [] tipo = "ambas" -> <<"invalidez_rv_ambas">>
         [] OTHER -> <<>>
  ELSE CASE tipo = "inmediata" -> <<"sobrevivencia_rv_inmediata">>
         [] tipo = "periodo_garantizado" -> <<"sobrevivencia_rv_garantizado">>
         [] OTHER -> <<>>

\* the loop "for (const escenario of formData.escenariosRV)": the requests it sends
RECURSIVE EscenariosEnviados(_, _)
EscenariosEnviados(tipoPension, escenariosRV) ==
  IF escenariosRV = <<>> THEN <<>>
  ELSE tipoAPI(tipoPension, Head(escenariosRV))
       \o EscenariosEnviados(tipoPension, Tail(escenariosRV))

\* the requests calcular sends whatever the answers are, in order
Plan(form) ==
  (IF ~form.calcularRP THEN <<>>
   ELSE IF form.tipoPension = "vejez" THEN <<"retiro_programado">>
   ELSE IF form.tipoPension = "invalidez" THEN <<"invalidez_rp">>
   ELSE <<"sobrevivencia_rp">>)
  \o EscenariosEnviados(form.tipoPension, form.escenariosRV)
  \o (IF /\ form.tipoPension = "invalidez"
         /\ Len(form.escenariosRV) = 0 /\ ~form.calcularRP
      THEN <<"invalidez">> ELSE <<>>)

\* the request sent when no scenario has left a result
PorDefecto(form) ==
  IF form.tipoPension = "vejez" THEN "inmediata" ELSE "sobrevivencia_opciones"

servidor == <<pc, peticion, respuesta, evaluadas, anio, saldo, retiroAcumulado, proyeccion, anterior, uf>>

\* calcular: setResultados([]), the validation of the beneficiaries, and the
\* requests to send
Lote_calcular ==
  /\ lote.fase = "formulario"
  /\ pc = "espera"
  /\ \E form \in Formularios :
       lote' = IF totalPorcentaje(form.beneficiarios) > P6
               THEN [SinLote EXCEPT !.fase = "error", !.formulario = <<form>>]
               ELSE [SinLote EXCEPT !.fase = "enviando", !.formulario = <<form>>,
                                    !.pendientes = Plan(form)]
  /\ UNCHANGED servidor

\* the results the page takes from the answer: data.resultado when
\* data.success, data.resultados for sobrevivencia_opciones
Recibidos(pedida, data) ==
  IF ~data.success THEN <<>>
  ELSE IF pedida.tipo = "sobrevivencia_opciones" THEN data.resultados
  ELSE <<data.resultado>>

\* const data = await response.json(); if (data.success) escenariosCalculados.push(...)
Lote_recibir ==
  /\ lote.fase = "enviando"
  /\ pc = "fin"
  /\ lote' = [lote EXCEPT !.pendientes = Tail(@),
                          !.enviadas = Append(@, [peticion |-> peticion,
                                                  respuesta |-> respuesta]),
                          !.escenariosCalculados = @ \o Recibidos(peticion, respuesta)]
  /\ pc' = "espera"
  /\ peticion' = SinPeticion
  /\ respuesta' = Espera
  /\ evaluadas' = <<>>
  /\ saldo' = <<0, 0>>
  /\ UNCHANGED <<anio, retiroAcumulado, proyeccion, anterior, uf>>

\* if (escenariosCalculados.length === 0): the request by default of old age
\* and of survivorship
Lote_porDefecto ==
  /\ lote.fase = "enviando"
  /\ pc = "espera"
  /\ lote.pendientes = <<>>
  /\ lote.escenariosCalculados = <<>>
  /\ ~lote.porDefecto
  /\ lote.formulario[1].tipoPension \in {"vejez", "sobrevivencia"}
  /\ lote' = [lote EXCEPT !.pendientes = <<PorDefecto(lote.formulario[1])>>,
                          !.porDefecto = TRUE]
  /\ UNCHANGED servidor

\* setResultados(escenariosCalculados)
Lote_setResultados ==
  /\ lote.fase = "enviando"
  /\ pc = "espera"
  /\ lote.pendientes = <<>>
  /\ \/ lote.escenariosCalculados # <<>>
     \/ lote.porDefecto
     \/ lote.formulario[1].tipoPension = "invalidez"
  /\ lote' = [lote EXCEPT !.fase = "listo", !.resultados = lote.escenariosCalculados]
  /\ UNCHANGED servidor

\* catch (err): a fetch that rejects ends the batch, and no result is shown
Lote_catch ==
  /\ lote.fase = "enviando"
  /\ pc = "espera"
  /\ lote.pendientes # <<>>
  /\ lote' = [lote EXCEPT !.fase = "error"]
  /\ UNCHANGED servidor

NextLote ==
  \/ Lote_calcular
  \/ POST_retiro_programado(DatosLoteVejez)
  \/ IterarRetiroProgramado(DatosLoteVejez)
  \/ POST_inmediata(DatosLoteVejez)
  \/ POST_periodo_garantizado(DatosLoteVejez)
  \/ POST_aumento_temporal(DatosLoteVejez)
  \/ POST_ambas(DatosLoteVejez)
  \/ POST_default(DatosLoteVejez)
  \/ POST_invalidez(DatosLoteInvalidez)
  \/ POST_invalidez_rp(DatosLoteInvalidez)
  \/ IterarRetiroProgramadoInvalidez(DatosLoteInvalidez)
  \/ POST_invalidez_rv_inmediata(DatosLoteInvalidez)
  \/ POST_invalidez_rv_garantizado(DatosLoteInvalidez)
  \/ POST_invalidez_rv_aumento(DatosLoteInvalidez)
  \/ POST_invalidez_rv_ambas(DatosLoteInvalidez)
  \/ POST_sobrevivencia_rp(DatosLoteSobrevivencia)
  \/ IterarRetiroProgramadoSobrevivencia(DatosLoteSobrevivencia)
  \/ POST_sobrevivencia_rv_inmediata(DatosLoteSobrevivencia)
  \/ POST_sobrevivencia_rv_garantizado(DatosLoteSobrevivencia)
  \/ POST_sobrevivencia_opciones(DatosLoteSobrevivencia)
  \/ IterarOpcionesSobrevivencia(DatosLoteSobrevivencia)
  \/ Lote_recibir
  \/ Lote_porDefecto
  \/ Lote_setResultados
  \/ Lote_catch

\* the page is open on its form and no other client calls the endpoint
InitLote ==
  /\ pc = "espera"
  /\ peticion = SinPeticion
  /\ respuesta = Espera
  /\ evaluadas = <<>>
  /\ anio = 0
  /\ saldo = <<0, 0>>
  /\ retiroAcumulado = 0
  /\ proyeccion = <<>>
  /\ anterior = <<>>
  /\ lote = [SinLote EXCEPT !.fase = "formulario"]
  /\ uf = SinUF

SpecLote == InitLote /\ [][NextLote]_vars

\* ---- GET /api/uf: every await of the handler is a step, and the GETs interleave ----

\* the values parseFloat reads in the snippets of the results of web_search,
\* in the order of the results
ResultadosBusqueda == {<<>>, <<34999, 35000>>, <<45001>>}

\* the value of the day in the table of the SII: none, or a value read
PaginasSII == {<<>>, <<45000>>, <<45001>>}

\* if (valor >= 35000 && valor <= 45000)
EnRango(valor) == valor >= 35000 /\ valor <= 45000

\* a check that accepts every value read
EnRango_todo(valor) == TRUE

\* let ufValue = UF_FALLBACK; for (const result of searchResults) { ... break; }
RECURSIVE BuscarValor(_, _)
BuscarValor(resultados, i) ==
  IF i > Len(resultados) THEN UF_FALLBACK
  ELSE IF EnRango(resultados[i]) THEN resultados[i]
  ELSE BuscarValor(resultados, i + 1)

\* the GET g moves to the state nuevo, and the cache to cache
PasoGET(g, nuevo, cache, almacenados) ==
  /\ uf' = [uf EXCEPT !.gets[g] = nuevo, !.cachedUF = cache, !.almacenados = almacenados]
  /\ UNCHANGED <<pc, peticion, respuesta, evaluadas, anio, saldo, retiroAcumulado,
                 proyeccion, anterior, lote>>

\* NextResponse.json({ success: true, valor, fecha, fuente })
Contestar(g, valor, fecha, fuente) ==
  [uf.gets[g] EXCEPT !.pc = "fin", !.respondido = uf.reloj,
                     !.respuesta = <<[success |-> TRUE, valor |-> valor, fecha |-> fecha,
                                      fuente |-> fuente]>>]

\* catch (error): the fallback value, and cachedUF as it was
Respaldo(g) ==
  PasoGET(g, Contestar(g, UF_FALLBACK, FechaDe(uf.reloj), "fallback"), uf.cachedUF,
          uf.almacenados)

\* if (cachedUF && (Date.now() - cachedUF.timestamp) < CACHE_DURATION)
CacheVigente ==
  /\ uf.cachedUF # <<>>
  /\ uf.reloj - uf.cachedUF[1].timestamp < CACHE_DURATION

\* a GET comes: it is answered from the cache, or it goes on to ZAI.create()
GET_entrar(g) ==
  /\ uf.gets[g].pc = "libre"
  /\ IF CacheVigente
     THEN PasoGET(g, [Contestar(g, uf.cachedUF[1].valor, uf.cachedUF[1].fecha, "cache")
                        EXCEPT !.vistos = Len(uf.almacenados)],
                  uf.cachedUF, uf.almacenados)
     ELSE PasoGET(g, [uf.gets[g] EXCEPT !.pc = "create", !.vistos = Len(uf.almacenados)],
                  uf.cachedUF, uf.almacenados)

\* await ZAI.create() resolves, or throws
GET_create(g) ==
  /\ uf.gets[g].pc = "create"
  /\ \/ PasoGET(g, [uf.gets[g] EXCEPT !.pc = "web_search", !.consulto = TRUE],
                 uf.cachedUF, uf.almacenados)
     \/ Respaldo(g)

\* await zai.functions.invoke('web_search') resolves with its results, or throws
GET_web_search(g) ==
  /\ uf.gets[g].pc = "web_search"
  /\ \/ \E resultados \in ResultadosBusqueda :
          PasoGET(g, [uf.gets[g] EXCEPT !.pc = "page_reader",
                                        !.ufValue = BuscarValor(resultados, 1),
                                        !.foundDate = FechaDe(uf.reloj)],
                  uf.cachedUF, uf.almacenados)
     \/ Respaldo(g)

\* await zai.functions.invoke('page_reader') resolves with the page, or throws
\* and is caught (no value read); then cachedUF is written and the GET answered
GET_page_reader(g) ==
  /\ uf.gets[g].pc = "page_reader"
  /\ \E pagina \in PaginasSII :
       LET leido == pagina # <<>> /\ EnRango(pagina[1])
           ufValue == IF leido THEN pagina[1] ELSE uf.gets[g].ufValue
           foundDate == IF leido THEN FechaDe(uf.reloj) ELSE uf.gets[g].foundDate
           entrada == [valor |-> ufValue, timestamp |-> uf.reloj, fecha |-> foundDate]
       IN  PasoGET(g, Contestar(g, ufValue, foundDate, "online"), <<entrada>>,
                   Append(uf.almacenados, entrada))

\* Date.now() moves on
Tic ==
  /\ uf.reloj < RelojInicial + (MaxTics * Paso)
  /\ uf' = [uf EXCEPT !.reloj = @ + Paso]
  /\ UNCHANGED <<pc, peticion, respuesta, evaluadas, anio, saldo, retiroAcumulado,
                 proyeccion, anterior, lote>>

NextCache ==
  \/ \E g \in 1..MaxGET : GET_entrar(g)
  \/ \E g \in 1..MaxGET : GET_create(g)
  \/ \E g \in 1..MaxGET : GET_web_search(g)
  \/ \E g \in 1..MaxGET : GET_page_reader(g)
  \/ Tic

SpecCache == Init /\ [][NextCache]_vars

\* ------------------------------------------------------------------------
\* Properties of the engine's formulas
\* ------------------------------------------------------------------------

\* the call of funcion has returned
Llamada(funcion) == pc = "fin" /\ peticion.tipo = funcion /\ Len(peticion.datos) = 1

Argumentos == peticion.datos[1]

\* C4: calcularPorcentajesBeneficiarios gives, for every beneficiary list,
\* each spouse or domestic partner 0.60 when the list has no child and 0.50
\* when it has one, each child 0.15, and each father or mother 0.15 exactly
\* when the list has no spouse, partner or child; a parent with no share is
\* left out of the output, whose entries keep the order of the list.
C4_CuotasLegales ==
  Llamada("calcularPorcentajesBeneficiarios") =>
    LET lista == Argumentos.beneficiarios
        tipos == {lista[i].tipo : i \in 1..Len(lista)}
        ConCuota(b) ==
          \/ b.tipo \in {"conyuge", "conviviente", "hijo"}
          \/ b.tipo \in {"padre", "madre"}
               /\ tipos \cap {"conyuge", "conviviente", "hijo"} = {}
        CuotaLegal(b) ==
          IF b.tipo \in {"conyuge", "conviviente"}
          THEN (IF "hijo" \in tipos THEN 500000 ELSE 600000)
          ELSE 150000
        conCuota == SelectSeq(lista, ConCuota)
    IN  /\ Len(respuesta.valor) = Len(conCuota)
        /\ \A i \in 1..Len(conCuota) :
             /\ respuesta.valor[i].tipo = conCuota[i].tipo
             /\ respuesta.valor[i].edad = conCuota[i].edad
             /\ respuesta.valor[i].sexo = conCuota[i].sexo
             /\ respuesta.valor[i].porcentaje = CuotaLegal(conCuota[i])

\* a spouse, a child and a mother: the mother is left out
C4_Testigo ==
  /\ Llamada("calcularPorcentajesBeneficiarios")
  /\ Argumentos.beneficiarios = <<Conyuge, Madre, Hijo>>
  /\ Len(respuesta.valor) = 2
  /\ respuesta.valor[1].porcentaje = 500000
  /\ respuesta.valor[2].porcentaje = 150000

\* the per-beneficiary breakdown of a result record
Desglose(r) ==
  IF "pensionPorBeneficiario" \in DOMAIN r THEN r.pensionPorBeneficiario ELSE <<>>

\* a survivorship request has been answered with result records
Sobrevivencia == Respondida /\ peticion.tipo \in TiposSobrevivencia

\* the statutory shares of the beneficiaries of the request, and their sum S
Legales == calcularPorcentajesBeneficiarios(peticion.datos[1].beneficiarios)

SumaLegal == porcentajeTotalDe(Legales)

C7_MontoDeReferencia ==
  Sobrevivencia =>
    \A k \in 1..Len(Resultados) :
      LET r == Resultados[k]
      IN  \A i \in 1..Len(Desglose(r)) :
            Desglose(r)[i].pensionMensual
              = Redondear(Escalar(r.pensionReferencia, Desglose(r)[i].porcentaje))

\* C7 (amended): the basic survivorship result pays each beneficiary the
\* reference pension times the reported share, rounded to the peso; every
\* other survivorship result pays each beneficiary the share of the pension
\* of its own modality (the pensionMensual of the result), to the peso.
C7_MontoPorModalidad ==
  Sobrevivencia =>
    \A k \in 1..Len(Resultados) :
      LET r == Resultados[k]
      IN  \A i \in 1..Len(Desglose(r)) :
            IF peticion.tipo = "sobrevivencia"
            THEN Desglose(r)[i].pensionMensual
                   = Redondear(Escalar(r.pensionReferencia, Desglose(r)[i].porcentaje))
            ELSE EsFinito(r.pensionMensual) =>
                   Desglose(r)[i].pensionMensual
                     - MulDiv(r.pensionMensual, Desglose(r)[i].porcentaje, P6)
                     \in (0 - 1)..1

\* one spouse and an income base of 1,000,000: 60% of 700,000
C7_Testigo ==
  /\ Sobrevivencia /\ peticion.tipo = "sobrevivencia"
  /\ peticion.datos[1].beneficiarios = <<Conyuge>>
  /\ respuesta.resultado.pensionReferencia = Pesos(700000)
  /\ Desglose(respuesta.resultado)[1].pensionMensual = 420000

\* the adjacent breakpoints of the guaranteed period and their factors
Tramos ==
  {<<0, 1000000, 60, 985000>>, <<60, 985000, 120, 970000>>,
   <<120, 970000, 180, 950000>>, <<180, 950000, 240, 925000>>,
   <<240, 925000, 300, 900000>>, <<300, 900000, 360, 875000>>}

\* C11: calcularFactorGarantizado(m) is 1.0 for every m <= 0, the factor of
\* the table at each breakpoint (60 -> 0.985, 120 -> 0.970, 180 -> 0.950,
\* 240 -> 0.925, 300 -> 0.900, 360 -> 0.875), 0.875 for every m >= 360, and
\* strictly between two adjacent breakpoints the linear interpolation of
\* their factors, which lies between the two.
C11_FactorGarantizado ==
  Llamada("calcularFactorGarantizado") =>
    LET m == Argumentos.meses
        factor == respuesta.valor
    IN  /\ m <= 0 => factor = 1000000
        /\ m >= 360 => factor = 875000
        /\ \A t \in Tramos :
             /\ m = t[1] => factor = t[2]
             /\ m = t[3] => factor = t[4]
             /\ (t[1] < m /\ m < t[3]) =>
                  /\ t[4] <= factor /\ factor <= t[2]
                  /\ Abs((t[3] - t[1]) * (t[2] - factor) - (t[2] - t[4]) * (m - t[1]))
                       < t[3] - t[1]

\* 210 months, half way between 180 and 240, give 0.9375
C11_Testigo ==
  /\ Llamada("calcularFactorGarantizado")
  /\ Argumentos.meses = 210
  /\ respuesta.valor = 937500

\* the ages of the table of a cohort
DominioTabla(esInvalido) == IF esInvalido THEN 18..81 ELSE 0..110

\* C14: the single-life CNU (calcularCNU without beneficiaries, and
\* calcularCNUIndividual) is a number strictly above 0 for every age of the
\* table of the cohort (0..110, or 18..81 for the disabled), either sex and
\* every interest rate above 0.
C14_CNUPositivo ==
  /\ (/\ Llamada("calcularCNU")
      /\ Argumentos.edad \in DominioTabla(Argumentos.esInvalido)
      /\ Argumentos.tasaInteres > 0)
     => EsFinito(respuesta.valor) /\ respuesta.valor > 0
  /\ (/\ Llamada("calcularCNUIndividual")
      /\ Argumentos.edad \in DominioTabla(FALSE)
      /\ Argumentos.tasaInteres > 0)
     => EsFinito(respuesta.valor) /\ respuesta.valor > 0

\* at the last age of the disabled the CNU is its first term alone: twelve
\* payments discounted half a year
C14_Testigo ==
  /\ Llamada("calcularCNU")
  /\ Argumentos.edad = 81 /\ Argumentos.esInvalido
  /\ respuesta.valor > 11 * P6 /\ respuesta.valor < 12 * P6

\* C15: in each of the four cohorts and for every age a of the table,
\* calcularLx(a + 1) <= calcularLx(a), and calcularLx is 100000 at the first
\* age of the cohort (0, or 18 for the disabled).
C15_LxNoCreciente ==
  (Llamada("calcularLx") /\ Argumentos.edad \in DominioTabla(Argumentos.esInvalido)) =>
    /\ LxLeq(calcularLx(Argumentos.edad + 1, Argumentos.sexo, Argumentos.esInvalido),
             respuesta.valor)
    /\ Argumentos.edad = (IF Argumentos.esInvalido THEN 18 ELSE 0)
         => respuesta.valor = <<LxRadix, 0>>

\* some of the 100000 women are alive at 110, and none at 111
C15_Testigo ==
  /\ Llamada("calcularLx")
  /\ Argumentos.edad = 110 /\ Argumentos.sexo = "F" /\ ~Argumentos.esInvalido
  /\ respuesta.valor[1] > 0 /\ respuesta.valor # <<LxRadix, 0>>
  /\ calcularLx(111, "F", FALSE) = <<0, 0>>

\* C16 (as stated): in each of the four cohorts calcularExpectativaVida, the
\* value rounded to one decimal that the function returns, strictly decreases
\* with the age over the table: for all ages a < b of the table,
\* calcularExpectativaVida(b) < calcularExpectativaVida(a).
C16_ExpectativaDecreciente ==
  (/\ Llamada("calcularExpectativaVida")
   /\ Argumentos.edad \in DominioTabla(Argumentos.esInvalido)) =>
    \A b \in DominioTabla(Argumentos.esInvalido) :
      b > Argumentos.edad =>
        calcularExpectativaVida(b, Argumentos.sexo, Argumentos.esInvalido) < respuesta.valor

\* the pairs of ages of disabled men whose rounded expectancies are equal
EdadesEmpatadas == {<<75, 76>>, <<79, 80>>}

\* C16 (amended): in each of the four cohorts the value returned never
\* increases with the age over the table, and it strictly decreases except
\* for disabled men between 75 and 76 (0.4 both) and between 79 and 80
\* (0.1 both), where the rounding to one decimal makes the values equal.
C16_ExpectativaNoCreciente ==
  (/\ Llamada("calcularExpectativaVida")
   /\ Argumentos.edad \in DominioTabla(Argumentos.esInvalido)) =>
    \A b \in DominioTabla(Argumentos.esInvalido) :
      b > Argumentos.edad =>
        IF /\ Argumentos.esInvalido /\ Argumentos.sexo = "M"
           /\ <<Argumentos.edad, b>> \in EdadesEmpatadas
        THEN calcularExpectativaVida(b, Argumentos.sexo, Argumentos.esInvalido)
               = respuesta.valor
        ELSE calcularExpectativaVida(b, Argumentos.sexo, Argumentos.esInvalido)
               < respuesta.valor

\* a disabled man of 75 is given 0.4 years, as one of 76 is
C16_Testigo ==
  /\ Llamada("calcularExpectativaVida")
  /\ Argumentos.edad = 75 /\ Argumentos.sexo = "M" /\ Argumentos.esInvalido
  /\ respuesta.valor = 4
  /\ calcularExpectativaVida(76, "M", TRUE) = 4

TiposEnviados == [i \in DOMAIN lote.enviadas |-> lote.enviadas[i].peticion.tipo]

\* the requests calcular has to send for its form, the request by default included
PlanCompleto ==
  Plan(lote.formulario[1])
  \o (IF lote.porDefecto THEN <<PorDefecto(lote.formulario[1])>> ELSE <<>>)

\* the results of the answers that arrived with success, in the order sent
RECURSIVE ResultadosRecibidos(_)
ResultadosRecibidos(enviadas) ==
  IF enviadas = <<>> THEN <<>>
  ELSE Recibidos(Head(enviadas).peticion, Head(enviadas).respuesta)
       \o ResultadosRecibidos(Tail(enviadas))

\* every scenario of the form is requested once, in order, whatever the
\* answers of the others, and none is requested again
C18_CadaEscenarioUnaVez == lote.fase = "listo" => TiposEnviados = PlanCompleto

\* the list shown holds the result of every request answered with success
C18_ResultadosPresentes ==
  lote.fase = "listo" => lote.resultados = ResultadosRecibidos(lote.enviadas)

\* both options of calcularOpcionesSobrevivencia (scheduled withdrawal and
\* immediate annuity) are in its answer when the case has eligible beneficiaries
C18_AmbasOpciones ==
  \A i \in DOMAIN lote.enviadas :
    LET enviada == lote.enviadas[i]
    IN  (/\ enviada.peticion.tipo = "sobrevivencia_opciones"
         /\ enviada.respuesta.success
         /\ calcularPorcentajesBeneficiarios(enviada.peticion.datos[1].beneficiarios) # <<>>)
        => Len(enviada.respuesta.resultados) = 2

\* C18: in a batch of scenarios, a scenario that ends in an error (a flagged
\* error result, or an answer with success=false) does not abort the others:
\* every other scenario is calculated and its result is in the final list of
\* the batch, and no scenario is retried
C18_LoteTolerante ==
  lote.fase = "listo" =>
    /\ TiposEnviados = PlanCompleto
    /\ lote.resultados = ResultadosRecibidos(lote.enviadas)
    /\ C18_AmbasOpciones

\* ---- the order of the beneficiaries ----

\* the lists with the persons of lista in another order
Permutaciones(lista) ==
  LET n == Len(lista)
  IN  {[i \in 1..n |-> lista[p[i]]] :
         p \in {q \in [1..n -> 1..n] : \A i, j \in 1..n : q[i] = q[j] => i = j}}

\* the times an entry is in a list
Veces(x, lista) == Cardinality({i \in DOMAIN lista : lista[i] = x})

\* two lists of shares that give every beneficiary the same share
MismoReparto(s, t) ==
  /\ Len(s) = Len(t)
  /\ \A i \in DOMAIN s : Veces(s[i], s) = Veces(s[i], t)

\* the beneficiary list of the call answered
ListaLlamada == peticion.datos[1].beneficiarios

\* every beneficiary has the same share in every order of the list
C19_MismosPorcentajes ==
  (pc = "fin" /\ peticion.tipo = "calcularPorcentajesBeneficiarios") =>
    \A otra \in Permutaciones(ListaLlamada) :
      MismoReparto(calcularPorcentajesBeneficiarios(otra), respuesta.valor)

\* the total of the shares is the same double in every order of the list
C19_MismoTotal ==
  (pc = "fin" /\ peticion.tipo = "porcentajeTotal") =>
    \A otra \in Permutaciones(ListaLlamada) :
      porcentajeTotalDoble(calcularPorcentajesBeneficiarios(otra)) = respuesta.valor

\* the CNU total, to its six decimals, is the same in every order of the list
C19_MismoCNU ==
  (pc = "fin" /\ peticion.tipo = "calcularCNUSobrevivencia") =>
    \A otra \in Permutaciones(ListaLlamada) :
      calcularCNUSobrevivencia(otra, peticion.datos[1].tasaInteres)
        = respuesta.valor.cnuTotal

\* C19: the assignment of shares does not depend on the order of the list: in
\* every permutation calcularPorcentajesBeneficiarios gives each beneficiary
\* the same share, and the total share of the survivorship formulas, with it
\* the normalization factor 1 / total, and the CNU total are the same
C19_OrdenIndiferente == C19_MismosPorcentajes /\ C19_MismoTotal /\ C19_MismoCNU

\* ---- the CNU of survivorship ----

\* the sum of the CNU of the first n entries of a detail, each weighted by its share
RECURSIVE SumaPonderada(_, _)
SumaPonderada(detalle, n) ==
  IF n = 0 THEN 0
  ELSE SumaPonderada(detalle, n - 1) + FMul(detalle[n].cnu, detalle[n].porcentaje)

\* calcularCNUSobrevivencia has been called and has answered
CNUSobrevivenciaRespondido == pc = "fin" /\ peticion.tipo = "calcularCNUSobrevivencia"

\* C21: the CNU of survivorship is the sum, over the dependents with a share,
\* of the single-life CNU of the dependent (own age and sex, general table)
\* weighted by the share: the joint formula is not used, and nothing of the
\* deceased enters it
C21_CNUSobrevivencia ==
  CNUSobrevivenciaRespondido =>
    LET porcentajes == calcularPorcentajesBeneficiarios(ListaLlamada)
        detalle == respuesta.valor.detallePorBeneficiario
    IN  /\ Len(detalle) = Len(porcentajes)
        /\ \A i \in DOMAIN detalle :
             /\ detalle[i].porcentaje = porcentajes[i].porcentaje
             /\ detalle[i].cnu
                  = calcularCNU(porcentajes[i].edad, porcentajes[i].sexo,
                                peticion.datos[1].tasaInteres, <<>>, FALSE)
        /\ respuesta.valor.cnuTotal = SumaPonderada(detalle, Len(detalle))

\* a spouse and a child: two single-life CNU, of which half and 15% are taken
C21_Testigo ==
  /\ CNUSobrevivenciaRespondido
  /\ ListaLlamada = <<Conyuge, Hijo>>
  /\ Len(respuesta.valor.detallePorBeneficiario) = 2
  /\ respuesta.valor.cnuTotal > 0
  /\ respuesta.valor.cnuTotal
       < respuesta.valor.detallePorBeneficiario[1].cnu
         + respuesta.valor.detallePorBeneficiario[2].cnu

\* ---- the units of the increase ----

\* a formula with a temporary increase has been called and has answered
AumentoLlamado ==
  /\ pc = "fin"
  /\ peticion.tipo \in {"calcularRVAumentoTemporal", "calcularRVConAmbasClausulas"}

\* the result of the call answered, had the increase been given as otro
ConAumento(otro) ==
  LET a == peticion.datos[1]
  IN  IF peticion.tipo = "calcularRVAumentoTemporal"
      THEN calcularRVAumentoTemporal(a.fondos, a.edad, a.sexo, a.mesesAumento, otro,
                                     RENTA_VITALICIA_VEJEZ, <<>>)
      ELSE calcularRVConAmbasClausulas(a.fondos, a.edad, a.sexo, a.mesesGarantizados,
                                       a.mesesAumento, otro, RENTA_VITALICIA_VEJEZ, <<>>)

\* the amounts of money of a result with a temporary increase
Monetario(r) ==
  <<r.pensionMensual, r.pensionEnUF, r.pensionAnual, r.aumentoTemporal.pensionAumentada,
    r.aumentoTemporal.pensionFinal, r.proyeccion>>

\* the increased benefit is the benefit after the period raised by the increase
\* n (in millionths), to the 2 pesos that the rounding of both can move it
UsadoComo(n) ==
  Abs(respuesta.valor.aumentoTemporal.pensionAumentada
      - FMul(respuesta.valor.aumentoTemporal.pensionFinal, P6 + n)) <= 2

\* C22 as stated: a fraction f in (0, 1] is used as the increase f, and a
\* whole percent w in 1..100 is used as w / 100, so that the amounts for
\* input w are those for input w / 100
C22_AmbasUnidades ==
  AumentoLlamado =>
    LET p == peticion.datos[1].porcentajeAumento
    IN  /\ p <= P6 => UsadoComo(p)
        /\ (p >= P6 /\ p % P6 = 0) =>
             Monetario(respuesta.valor) = Monetario(ConAumento(p \div 100))

\* C22: a value up to 1 is used as the increase it is, 1 included (100%), and
\* a value above 1 is used as a whole percent: for w in 2..100 the amounts for
\* input w are those for input w / 100
C22_PorcentajeSobreUno ==
  AumentoLlamado =>
    LET p == peticion.datos[1].porcentajeAumento
    IN  /\ p <= P6 => UsadoComo(p)
        /\ p > P6 =>
             /\ UsadoComo(p \div 100)
             /\ Monetario(respuesta.valor) = Monetario(ConAumento(p \div 100))

\* an increase given as 10 raises the benefit as one given as 0.1 does
C22_Testigo ==
  /\ AumentoLlamado
  /\ peticion.datos[1].porcentajeAumento = 10 * P6
  /\ respuesta.valor.aumentoTemporal.pensionAumentada
       > respuesta.valor.aumentoTemporal.pensionFinal
  /\ respuesta.valor.aumentoTemporal.pensionFinal > 0

\* ---- the benefit in UF ----

\* a request that carries a value of the UF has been answered with a result
RespondidaConUF ==
  /\ Respondida
  /\ respuesta.success
  /\ "uf" \in DOMAIN peticion.datos[1]

\* C23: the pensionEnUF of a result is its monthly benefit divided by the value
\* of the UF that came with the request (to the peso that the rounding of
\* pensionMensual can move it)
C23_EnUFSuministrada ==
  RespondidaConUF =>
    Abs(MulDiv(respuesta.resultado.pensionEnUF, peticion.datos[1].uf, P6)
        - respuesta.resultado.pensionMensual) <= 1

\* what the endpoint answers: the monthly benefit divided by UF_ACTUAL,
\* whatever value came with the request
C23_EnUFConstante ==
  RespondidaConUF =>
    /\ Abs(MulDiv(respuesta.resultado.pensionEnUF, UF_ACTUAL, P6)
           - respuesta.resultado.pensionMensual) <= 1
    /\ \A valorUF \in ValoresUF :
         LET otros == [peticion.datos[1] EXCEPT !.uf = valorUF]
         IN  respuesta.resultado.pensionEnUF =
               IF peticion.tipo = "inmediata"
               THEN calcularRVInmediata(otros.fondos, otros.edad, otros.sexo, tasaRVDe(otros),
                                        otros.beneficiarios).pensionEnUF
               ELSE calcularRetiroProgramado(otros.fondos, otros.edad, otros.sexo,
                      tasaInteresDe(otros), otros.beneficiarios, <<>>).pensionEnUF

\* ---- ages outside the mortality tables ----

\* the table of a cohort, its first age and its last age
TablaDe(sexo, esInvalido) ==
  IF esInvalido THEN (IF sexo = "M" THEN TABLA_I_H_2020 ELSE TABLA_I_M_2020)
  ELSE (IF sexo = "M" THEN TABLA_CB_H_2020 ELSE TABLA_B_M_2020)

EdadMinimaDe(esInvalido) == IF esInvalido THEN 18 ELSE 0

EdadMaximaDe(esInvalido) == IF esInvalido THEN 81 ELSE 110

LlamadoCon(funcion) == pc = "fin" /\ peticion.tipo = funcion

\* C24: getQx answers an age below the first age of the table of the cohort
\* (0, or 18 for the disabled) with the qx of the first age, an age above the
\* last (110, or 81 for the disabled) with the qx of the last, which is 1.0,
\* and an age of the table with its own qx; so calcularLx is 0 at every age
\* beyond the last and positive at every age of the table, and the survival
\* probability from an age of the table to an age beyond it is 0.
C24_EdadesAcotadas ==
  /\ LlamadoCon("getQx") =>
       LET a == peticion.datos[1]
           tabla == TablaDe(a.sexo, a.esInvalido)
           primera == EdadMinimaDe(a.esInvalido)
           ultima == EdadMaximaDe(a.esInvalido)
       IN  /\ Len(tabla) = ultima - primera + 1
           /\ a.edad < primera => respuesta.valor = tabla[1]
           /\ a.edad > ultima => respuesta.valor = tabla[Len(tabla)] /\ respuesta.valor = P6
           /\ a.edad \in primera..ultima => respuesta.valor = tabla[a.edad - primera + 1]
  /\ LlamadoCon("calcularLx") =>
       LET a == peticion.datos[1]
           primera == EdadMinimaDe(a.esInvalido)
           ultima == EdadMaximaDe(a.esInvalido)
       IN  /\ a.edad \in primera..ultima => respuesta.valor[1] > 0
           /\ a.edad > ultima =>
                /\ respuesta.valor[1] = 0
                /\ \A desde \in primera..ultima :
                     /\ calcularLx(desde, a.sexo, a.esInvalido)[1] > 0
                     /\ LxRatio(respuesta.valor, calcularLx(desde, a.sexo, a.esInvalido)) = 0

\* getQx of a disabled man of 90 is the 1.0 of age 81
C24_Testigo ==
  /\ LlamadoCon("getQx")
  /\ peticion.datos[1] = [edad |-> 90, sexo |-> "M", esInvalido |-> TRUE]
  /\ respuesta.valor = P6

\* ---- the years of a scheduled withdrawal ----

\* the rate of the scheduled withdrawal answered
TasaDelRetiro ==
  IF peticion.tipo = "sobrevivencia_opciones" THEN RETIRO_PROGRAMADO
  ELSE tasaInteresDe(peticion.datos[1])

\* the beneficiaries k years later
Envejecidos(beneficiarios, k) ==
  [i \in DOMAIN beneficiarios |-> [beneficiarios[i] EXCEPT !.edad = @ + k]]

\* the CNU of the ages reached k years after the start
CNUDelAnio(k) ==
  LET datos == peticion.datos[1]
  IN  IF peticion.tipo = "retiro_programado"
      THEN calcularCNU(datos.edad + k, datos.sexo, TasaDelRetiro, <<>>, FALSE)
      ELSE IF peticion.tipo = "invalidez_rp"
      THEN calcularCNU(datos.edad + k, datos.sexo, TasaDelRetiro, <<>>, TRUE)
      ELSE calcularCNUSobrevivencia(Envejecidos(datos.beneficiarios, k), TasaDelRetiro)

\* the CNU the loops compute in the year k: the survivorship loops call
\* calcularCNUSobrevivencia(beneficiarios, tasa) with the list as it came
CNUDelBucle(k) ==
  LET datos == peticion.datos[1]
  IN  IF peticion.tipo \in {"retiro_programado", "invalidez_rp"} THEN CNUDelAnio(k)
      ELSE calcularCNUSobrevivencia(datos.beneficiarios, TasaDelRetiro)

\* the points of the projection follow the recurrence with the CNU cnu(k) of
\* the year k: benefit = balance / cnu(k), next balance = max(0, (balance -
\* 12 benefits) * (1 + rate)), to the pesos the rounding of the points can
\* move them
Recurrencia(cnu(_)) ==
  LET p == Puntos
  IN  \A i \in DOMAIN p :
        /\ p[i].edad = peticion.datos[1].edad + (i - 1)
        /\ Abs(p[i].pensionMensual
               - Redondear(Dividir(Pesos(p[i].saldoAcumulado), cnu(i - 1)))) <= 1
        /\ i < Len(p) =>
             Abs(p[i + 1].saldoAcumulado
                 - FMul(p[i].saldoAcumulado - 12 * p[i].pensionMensual,
                        P6 + TasaDelRetiro)) <= 14

\* a year loop goes on to a next year only with a balance above 0
SinAnioTrasSaldoCero == (pc = "proyeccion" /\ anio > 0) => saldo[1] > 0

\* C25: in every scheduled-withdrawal projection the CNU of the year k is that
\* of the ages reached in the year k, the benefit of the year is the balance
\* divided by that CNU, the next balance is max(0, (balance - withdrawal) *
\* (1 + rate)), and the loop stops at the first year that ends with balance 0
C25_CNUDeCadaAnio ==
  /\ ProyeccionRespondida => Recurrencia(CNUDelAnio)
  /\ SinAnioTrasSaldoCero

\* the recurrence with the CNU the loops compute
C25_CNUDelBucle ==
  /\ ProyeccionRespondida => Recurrencia(CNUDelBucle)
  /\ SinAnioTrasSaldoCero

\* ---- the projection of an annuity with a temporary increase ----

TiposAumentoVejez == {"aumento_temporal", "ambas"}

TiposAumentoInvalidez == {"invalidez_rv_aumento", "invalidez_rv_ambas"}

TiposAumentoSobrevivencia == {"sobrevivencia_rv_aumento", "sobrevivencia_rv_ambas"}

\* a request of the types tipos has been answered with a result that carries
\* a temporary increase
ConAumentoRespondida(tipos) ==
  /\ Respondida /\ respuesta.success
  /\ peticion.tipo \in tipos
  /\ "aumentoTemporal" \in DOMAIN respuesta.resultado

\* the result answered carries a projection of anios years (none when anios
\* <= 0) whose point k, at the age edad + k - 1, is in the phase 'aumento'
\* with the increased amount exactly when k <= ceil(meses / 12), and else in
\* the phase 'normal' with the amount after the period
ProyeccionPorFases(anios) ==
  LET r == respuesta.resultado
      techo == CHOOSE n \in 0..MaxMeses :
                 12 * n >= r.aumentoTemporal.meses /\ 12 * (n - 1) < r.aumentoTemporal.meses
  IN  /\ "proyeccion" \in DOMAIN r
      /\ Len(r.proyeccion) = Max(0, anios)
      /\ \A k \in 1..Len(r.proyeccion) :
           /\ r.proyeccion[k].anio = k
           /\ r.proyeccion[k].edad = peticion.datos[1].edad + k - 1
           /\ IF k <= techo
              THEN /\ r.proyeccion[k].fase = "aumento"
                   /\ r.proyeccion[k].pensionMensual = r.aumentoTemporal.pensionAumentada
              ELSE /\ r.proyeccion[k].fase = "normal"
                   /\ r.proyeccion[k].pensionMensual = r.aumentoTemporal.pensionFinal

\* C26 as stated: every result with a temporary increase, those of
\* survivorship included, carries the projection by phases
C26_TodaProyeccionPorFases ==
  /\ ConAumentoRespondida(TiposAumentoVejez) => ProyeccionPorFases(30)
  /\ ConAumentoRespondida(TiposAumentoInvalidez) =>
       ProyeccionPorFases(Min(30, 81 - peticion.datos[1].edad))
  /\ ConAumentoRespondida(TiposAumentoSobrevivencia) =>
       /\ "proyeccion" \in DOMAIN respuesta.resultado
       /\ Len(respuesta.resultado.proyeccion) > 0

\* C26: the old-age results with a temporary increase carry a projection of 30
\* years and the disability ones of min(30, 81 - age) years (none from 81 on),
\* whose point k is at the age start + k - 1, in the phase 'aumento' with the
\* increased amount exactly when k <= ceil(increaseMonths / 12), and else in
\* the phase 'normal' with the steady amount; the survivorship results with a
\* temporary increase carry no projection.
C26_ProyeccionPorFases ==
  /\ ConAumentoRespondida(TiposAumentoVejez) => ProyeccionPorFases(30)
  /\ ConAumentoRespondida(TiposAumentoInvalidez) =>
       ProyeccionPorFases(Min(30, 81 - peticion.datos[1].edad))
  /\ ConAumentoRespondida(TiposAumentoSobrevivencia) =>
       "proyeccion" \notin DOMAIN respuesta.resultado

\* 18 months of increase at 65: two years in the phase 'aumento', then 'normal'
C26_Testigo ==
  /\ ConAumentoRespondida(TiposAumentoVejez)
  /\ peticion.datos[1].edad = 65
  /\ peticion.datos[1].mesesAumento = 18
  /\ Len(respuesta.resultado.proyeccion) = 30
  /\ respuesta.resultado.proyeccion[2].fase = "aumento"
  /\ respuesta.resultado.proyeccion[3].fase = "normal"
  /\ respuesta.resultado.proyeccion[2].pensionMensual
       > respuesta.resultado.proyeccion[3].pensionMensual
  /\ respuesta.resultado.proyeccion[3].pensionMensual > 0

\* ---- the headline benefit and the first year of the projection ----

\* an old-age or disability scheduled withdrawal answered with a projection
RetiroTitularRespondido ==
  /\ Respondida /\ respuesta.success
  /\ peticion.tipo \in {"retiro_programado", "invalidez_rp"}
  /\ Len(respuesta.resultado.proyeccion) >= 1

\* C27: in the results of calcularRetiroProgramado and
\* calcularRetiroProgramadoInvalidez, with or without beneficiaries, the
\* pensionMensual of the result is the pensionMensual of the first point of
\* its projection
C27_PrimerAnioIgualTitular ==
  RetiroTitularRespondido =>
    respuesta.resultado.pensionMensual = respuesta.resultado.proyeccion[1].pensionMensual

\* the two are equal when the request has no beneficiaries
C27_PrimerAnioSinBeneficiarios ==
  (RetiroTitularRespondido /\ peticion.datos[1].beneficiarios = <<>>) =>
    respuesta.resultado.pensionMensual = respuesta.resultado.proyeccion[1].pensionMensual

\* ---- a beneficiary more in calcularCNU ----

\* the list without its last entry
SinUltimo(lista) == SubSeq(lista, 1, Len(lista) - 1)

\* calcularCNU has answered the call with the list lista: its value is a
\* number not below the CNU of the list without its last beneficiary, the
\* benefit of a balance of 50,000,000 is not above the benefit with that
\* list, and with the empty list the value is the single-life CNU
CargaNoDisminuye(lista) ==
  LET a == peticion.datos[1]
      antes == calcularCNU(a.edad, a.sexo, a.tasaInteres, SinUltimo(lista), a.esInvalido)
      ahora == respuesta.valor
  IN  IF lista = <<>>
      THEN /\ ahora = CNUTitular(a.edad, a.sexo, a.tasaInteres, a.esInvalido) * 12
           /\ ~a.esInvalido => ahora = calcularCNUIndividual(a.edad, a.sexo, a.tasaInteres)
      ELSE /\ MenorIgual(antes, ahora)
           /\ MenorIgual(Dividir(Pesos(50000000), ahora), Dividir(Pesos(50000000), antes))

\* C28: for a titular of an age of the table and a rate above 0, a beneficiary
\* with a share >= 0 added to the list never decreases the CNU of calcularCNU,
\* so the benefit balance / CNU never increases; with an empty or absent list
\* the CNU is the single-life CNU
C28_CargaNoDisminuye ==
  LlamadoCon("calcularCNU con beneficiarios") =>
    CargaNoDisminuye(peticion.datos[1].beneficiarios)

\* the same for the lists whose beneficiaries are of an age of the table
C28_CargaEnTablaNoDisminuye ==
  (/\ LlamadoCon("calcularCNU con beneficiarios")
   /\ \A i \in DOMAIN peticion.datos[1].beneficiarios :
        peticion.datos[1].beneficiarios[i].edad \in 0..110) =>
    CargaNoDisminuye(peticion.datos[1].beneficiarios)

\* ---- the balance along a scheduled withdrawal ----

\* a scheduled withdrawal of a balance >= 0 has been answered with its projection
RetiroProyectado ==
  /\ Respondida /\ respuesta.success
  /\ peticion.tipo \in TiposRetiroProgramado
  /\ peticion.datos[1].fondos >= 0
  /\ "proyeccion" \in DOMAIN Resultados[1]

\* the years are numbered from 1 on
AniosConsecutivos == \A i \in 1..Len(Puntos) : Puntos[i].anio = i

\* the balance is never negative and never above that of the year before
SaldoNoCrece ==
  \A i \in 1..Len(Puntos) :
    /\ Puntos[i].saldoAcumulado >= 0
    /\ i < Len(Puntos) => Puntos[i + 1].saldoAcumulado <= Puntos[i].saldoAcumulado

\* the amount withdrawn starts at 0 and never decreases
RetiroNoDecrece ==
  \A i \in 1..Len(Puntos) :
    /\ i = 1 => Puntos[i].retiroAcumulado = 0
    /\ i < Len(Puntos) => Puntos[i + 1].retiroAcumulado >= Puntos[i].retiroAcumulado

\* C29: in every scheduled-withdrawal projection of a balance >= 0 (old age,
\* disability, and survivorship with any beneficiary list) the remaining
\* balance never increases from a point to the next and is never negative,
\* the years are numbered consecutively from 1, and in the old-age and
\* disability projections the amount withdrawn starts at 0 and never decreases
C29_SaldoDecreciente ==
  RetiroProyectado =>
    /\ AniosConsecutivos
    /\ SaldoNoCrece
    /\ peticion.tipo \in {"retiro_programado", "invalidez_rp"} => RetiroNoDecrece

\* the same, the balance of a survivorship projection left aside when the CNU
\* of the list is above 12 (1 + rate) / rate
C29_SaldoDecrecienteHastaPerpetuidad ==
  RetiroProyectado =>
    /\ AniosConsecutivos
    /\ \A i \in 1..Len(Puntos) : Puntos[i].saldoAcumulado >= 0
    /\ FMul(Resultados[1].cnu, TasaDelRetiro) <= 12 * (P6 + TasaDelRetiro) => SaldoNoCrece
    /\ peticion.tipo \in {"retiro_programado", "invalidez_rp"} =>
         SaldoNoCrece /\ RetiroNoDecrece

\* ---- the cache of /api/uf ----

GETs == 1..MaxGET

Atendido(g) == uf.gets[g].pc = "fin"

\* the GET g was answered, from the cache and with no lookup, the value and
\* the date of the entry of the cache
DeLaCache(g, entrada) ==
  /\ uf.gets[g].respuesta = <<[success |-> TRUE, valor |-> entrada.valor,
                               fecha |-> entrada.fecha, fuente |-> "cache"]>>
  /\ ~uf.gets[g].consulto

\* every value written to the cache or answered is in [35000, 45000], and a
\* fallback answer carries 39600
ValoresEnRango ==
  /\ \A k \in 1..Len(uf.almacenados) : uf.almacenados[k].valor \in 35000..45000
  /\ \A g \in GETs :
       Atendido(g) =>
         /\ uf.gets[g].respuesta[1].valor \in 35000..45000
         /\ uf.gets[g].respuesta[1].fuente = "fallback" =>
              uf.gets[g].respuesta[1].valor = UF_FALLBACK

\* C30: once a lookup has written a value to the cache at the time T, every
\* GET that comes after it and is answered before T + 3,600,000 ms gets that
\* value and date with fuente = 'cache' and makes no lookup, however the GETs
\* interleave; a fallback answer carries 39600; every value written to the
\* cache or answered is in [35000, 45000]
C30_CacheVigente ==
  /\ \A g \in GETs :
       Atendido(g) =>
         \A k \in 1..uf.gets[g].vistos :
           uf.gets[g].respondido < uf.almacenados[k].timestamp + CACHE_DURATION =>
             DeLaCache(g, uf.almacenados[k])
  /\ ValoresEnRango

\* what holds under every interleaving: a GET that comes while the last value
\* written is less than an hour old gets that last value from the cache
C30_UltimoAlmacenado ==
  /\ \A g \in GETs :
       (Atendido(g) /\ uf.gets[g].vistos > 0) =>
         LET ultimo == uf.almacenados[uf.gets[g].vistos]
         IN  IF uf.gets[g].respuesta[1].fuente = "cache"
             THEN /\ DeLaCache(g, ultimo)
                  /\ uf.gets[g].respondido < ultimo.timestamp + CACHE_DURATION
             ELSE uf.gets[g].respondido >= ultimo.timestamp + CACHE_DURATION
  /\ ValoresEnRango

\* a fallback answer leaves the cache as it was
C30_RespaldoSinEscribir ==
  [][\A g \in GETs :
       (~Atendido(g) /\ uf'.gets[g].pc = "fin"
        /\ uf'.gets[g].respuesta[1].fuente = "fallback") => uf'.cachedUF = uf.cachedUF]_vars
====
